---- MODULE Spec2Model ----
(***************************************************************************)
(* A model of the "website clarity" audit tool: the POST /api/analyze      *)
(* route (both versions kept in app/api/analyze/route.ts: the one that     *)
(* runs lib/analyzer.ts and the mock one), the WebsiteAnalyzer class, the  *)
(* landing page (Home) and the results page (Results) with the browser's   *)
(* localStorage, and the analyzer's helpers applied on their own.          *)
(*                                                                         *)
(* Strings whose content the code inspects (URLs, hrefs, error messages)   *)
(* are sequences of one-character strings.  JSON values are records        *)
(* [t |-> <typeof>, v |-> <their String() form>].                          *)
(***************************************************************************)
EXTENDS Integers, Sequences, FiniteSets, TLC

(***************************************************************************)
(* Bounds of the model.                                                    *)
(***************************************************************************)
\* number of analyze calls that may overlap (each on an instance of its own
\* or on a shared one)
NumCalls == 2
\* milliseconds that pass in one step of the clock while a fetch is pending
TickMs == 5000
\* Math.random() is drawn from {0, RandDen \div 2, RandDen - 1} / RandDen
RandDen == 1000

\* number of fragments a text handed to detectSpellingIssues is made of
MaxFragments == 3

\* most words in a sentence of a text handed to calculateReadability
MaxWords == 27

\* most elements of one kind (images, elements with an aria label, ...) in a
\* document whose accessibility is scored
MaxCount == 3

\* number of times handleSubmit may run
MaxSubmits == 2

(***************************************************************************)
(* Program constants.                                                      *)
(***************************************************************************)
FetchTimeoutMs == 10000
MockDelayMs == 1200

Calls == 1 .. NumCalls
Instances == 1 .. NumCalls

(***************************************************************************)
(* Characters and strings.                                                 *)
(***************************************************************************)
Alpha == {"a", "b", "c", "d", "e", "f", "h", "i", "l", "m", "n", "o", "p",
          "r", "s", "t", "u", "w", "x", "y", "A", "E", "N", "O", "T", "D",
          "F", "U"}
Digit == {"0", "1", "5"}

RECURSIVE DropWhileSpace(_)
DropWhileSpace(s) ==
    IF s # <<>> /\ Head(s) = " " THEN DropWhileSpace(Tail(s)) ELSE s

RECURSIVE DropTrailingSpace(_)
DropTrailingSpace(s) ==
    IF s # <<>> /\ s[Len(s)] = " "
    THEN DropTrailingSpace(SubSeq(s, 1, Len(s) - 1))
    ELSE s

\* String.prototype.startsWith / the CSS attribute selector [href^="p"]
StartsWith(s, p) ==
    /\ Len(p) <= Len(s)
    /\ SubSeq(s, 1, Len(p)) = p

\* String.prototype.includes
Includes(s, p) ==
    \E i \in 0 .. (Len(s) - Len(p)) : SubSeq(s, i + 1, i + Len(p)) = p

(***************************************************************************)
(* JSON values of the request body's `url` field.                          *)
(***************************************************************************)
JsUndefined == [t |-> "undefined", v |-> <<"u", "n", "d", "e", "f", "i", "n", "e", "d">>]
JsNull == [t |-> "object", v |-> <<"n", "u", "l", "l">>]
JsFalse == [t |-> "boolean", v |-> <<"f", "a", "l", "s", "e">>]
JsTrue == [t |-> "boolean", v |-> <<"t", "r", "u", "e">>]
JsZero == [t |-> "number", v |-> <<"0">>]
JsFive == [t |-> "number", v |-> <<"5">>]
JsString(s) == [t |-> "string", v |-> s]

\* ToBoolean, as used by `if (!url)`
Truthy(x) ==
    CASE x.t = "undefined" -> FALSE
      [] x.t = "object" -> FALSE
      [] x.t = "boolean" -> x.v = JsTrue.v
      [] x.t = "number" -> x.v # <<"0">>
      [] x.t = "string" -> x.v # <<>>

\* ToString (String(x)), as applied by `new URL(url)` to its argument
JsToString(x) == x.v

(***************************************************************************)
(* new URL(input) without a base: the WHATWG basic URL parser, as far as   *)
(* it decides success or failure for the inputs of the model (no file:     *)
(* scheme, no credentials, no port, no percent-encoding).                  *)
(***************************************************************************)
SchemeChars == Alpha \cup Digit \cup {"+", "-", "."}
SpecialSchemes == { <<"h", "t", "t", "p">>, <<"h", "t", "t", "p", "s">>,
                    <<"w", "s">>, <<"w", "s", "s">>, <<"f", "t", "p">> }
ForbiddenHostChars == {" ", "#", "/", ":", "<", ">", "?", "@", "[", "\\", "]", "^", "|"}

\* length of the longest prefix of s made of scheme characters
RECURSIVE SchemeLen(_)
SchemeLen(s) ==
    IF s # <<>> /\ Head(s) \in SchemeChars THEN 1 + SchemeLen(Tail(s)) ELSE 0

RECURSIVE DropSlashes(_)
DropSlashes(s) ==
    IF s # <<>> /\ Head(s) \in {"/", "\\"} THEN DropSlashes(Tail(s)) ELSE s

\* the host: everything up to the first "/", "?" or "#"
RECURSIVE HostOf(_)
HostOf(s) ==
    IF s = <<>> \/ Head(s) \in {"/", "?", "#"} THEN <<>>
    ELSE <<Head(s)>> \o HostOf(Tail(s))

HostChars(h) == { h[i] : i \in 1 .. Len(h) }

URLParses(input) ==
    LET s == DropTrailingSpace(DropWhileSpace(input))
        n == SchemeLen(s)
    IN  /\ s # <<>>
        /\ Head(s) \in Alpha
        /\ n < Len(s)
        /\ s[n + 1] = ":"
        /\ LET scheme == SubSeq(s, 1, n)
               rest == SubSeq(s, n + 2, Len(s))
           IN  IF scheme \in SpecialSchemes
               THEN LET host == HostOf(DropSlashes(rest))
                    IN  /\ host # <<>>
                        /\ HostChars(host) \cap ForbiddenHostChars = {}
               ELSE IF StartsWith(rest, <<"/", "/">>)
                    THEN HostChars(HostOf(SubSeq(rest, 3, Len(rest))))
                            \cap (ForbiddenHostChars \ {":"}) = {}
                    ELSE TRUE

(***************************************************************************)
(* Text helpers of the content module.                                     *)
(***************************************************************************)
Whitespace == {" "}
SentenceEnd == {".", "!", "?"}

\* number of maximal runs of characters of set S in s
Runs(s, S) ==
    Cardinality({ i \in 1 .. Len(s) :
                    /\ s[i] \in S
                    /\ (i = Len(s) \/ s[i + 1] \notin S) })

\* text.split(/sep+/).length
SplitLength(s, S) == Runs(s, S) + 1

\* text.split(/\s+/).filter(w => w.length > 0).length
NonEmptyWords(s) ==
    SplitLength(s, Whitespace)
      - (IF s # <<>> /\ Head(s) \in Whitespace THEN 1 ELSE 0)
      - (IF s # <<>> /\ s[Len(s)] \in Whitespace THEN 1 ELSE 0)
      - (IF s = <<>> THEN 1 ELSE 0)

LowerChar(c) ==
    CASE c = "A" -> "a" [] c = "E" -> "e" [] c = "N" -> "n" [] c = "O" -> "o"
      [] c = "T" -> "t" [] c = "D" -> "d" [] c = "F" -> "f" [] c = "U" -> "u"
      [] OTHER -> c

toLowerCase(s) == [i \in 1 .. Len(s) |-> LowerChar(s[i])]

\* String.prototype.indexOf: 0-based index of the first occurrence, or -1
indexOf(s, p) ==
    IF Includes(s, p)
    THEN CHOOSE i \in 0 .. (Len(s) - Len(p)) :
            /\ SubSeq(s, i + 1, i + Len(p)) = p
            /\ \A j \in 0 .. (i - 1) : SubSeq(s, j + 1, j + Len(p)) # p
    ELSE -1

Max(a, b) == IF a >= b THEN a ELSE b
Min(a, b) == IF a <= b THEN a ELSE b

\* Math.round of the non-negative rational num/den: floor(num/den + 1/2)
Round(num, den) == (2 * num + den) \div (2 * den)

(***************************************************************************)
(* Documents.  A fetched page is represented by what the cheerio selectors *)
(* of lib/analyzer.ts read from it; its body text and the hrefs of its     *)
(* anchors are kept as strings.  html and $ hold an index into DocList     *)
(* (0: the initial '' / null).                                             *)
(***************************************************************************)
UrlA == <<"h", "t", "t", "p", ":", "/", "/", "a">>
UrlB == <<"h", "t", "t", "p", ":", "/", "/", "b">>

TrustSignalNames == {"SSL Certificate", "Contact Information", "Privacy Policy",
                     "Terms of Service", "Testimonials", "Security Badge"}

DocList == <<
  [ title |-> 35, description |-> 130, h1Text |-> 25, h1 |-> 1, h2 |-> 2, h3 |-> 1,
    text |-> <<"w", "e", " ", "r", "e", "c", "i", "e", "v", "e", " ", "a", "l", "o", "t", ".", " ", "g", "e", "t", " ", "i", "t", " ", "n", "o", "w", "!">>,
    hasCTAText |-> TRUE, images |-> 2, imagesNoAlt |-> 1, imagesAltAttr |-> 1,
    lazyImages |-> 1,
    links |-> << <<"/", "x">>, <<"h", "t", "t", "p", ":", "/", "/", "a", "/", "p">>, <<"h", "t", "t", "p", ":", "/", "/", "a", "/", "q">>, <<"h", "t", "t", "p", ":", "/", "/", "b", "/", "p">> >>,
    schemaMarkup |-> TRUE, viewport |-> TRUE, scripts |-> 2, styles |-> 1,
    minCSS |-> TRUE, minJS |-> FALSE, fontSizes |-> <<16, 12, 16, 24>>, elements |-> 40,
    trustPresent |-> {"Contact Information", "Privacy Policy", "Testimonials"},
    ctas |-> 2, ctaActionWord |-> TRUE, ctaUrgency |-> TRUE, socialProof |-> TRUE,
    ariaNeeding |-> 4, ariaWith |-> 3, semantic |-> TRUE, lang |-> TRUE ],
  [ title |-> 0, description |-> 0, h1Text |-> 0, h1 |-> 0, h2 |-> 0, h3 |-> 0,
    text |-> <<>>,
    hasCTAText |-> FALSE, images |-> 0, imagesNoAlt |-> 0, imagesAltAttr |-> 0,
    lazyImages |-> 0,
    links |-> << >>,
    schemaMarkup |-> FALSE, viewport |-> FALSE, scripts |-> 0, styles |-> 0,
    minCSS |-> FALSE, minJS |-> FALSE, fontSizes |-> << >>, elements |-> 3,
    trustPresent |-> {},
    ctas |-> 0, ctaActionWord |-> FALSE, ctaUrgency |-> FALSE, socialProof |-> FALSE,
    ariaNeeding |-> 0, ariaWith |-> 0, semantic |-> FALSE, lang |-> FALSE ],
  [ title |-> 12, description |-> 200, h1Text |-> 11, h1 |-> 2, h2 |-> 1, h3 |-> 0,
    text |-> <<" ", "D", "e", "f", "i", "n", "a", "t", "e", "l", "y", " ", "o", "k", " ", " ", "y", "o", "u", "r", " ", "w", "e", "l", "c", "o", "m", "e", " ">>,
    hasCTAText |-> FALSE, images |-> 3, imagesNoAlt |-> 3, imagesAltAttr |-> 1,
    lazyImages |-> 0,
    links |-> << <<"h", "t", "t", "p", ":", "/", "/", "a", "/", "p">>, <<"m", "a", "i", "l", "t", "o", ":", "x">> >>,
    schemaMarkup |-> FALSE, viewport |-> TRUE, scripts |-> 11, styles |-> 2,
    minCSS |-> FALSE, minJS |-> TRUE, fontSizes |-> <<10>>, elements |-> 12,
    trustPresent |-> {"Contact Information"},
    ctas |-> 5, ctaActionWord |-> FALSE, ctaUrgency |-> FALSE, socialProof |-> FALSE,
    ariaNeeding |-> 5, ariaWith |-> 1, semantic |-> TRUE, lang |-> FALSE ]
>>

DocIds == 1 .. Len(DocList)
NoDoc == 0

\* cheerio.load(html): the parsed view of the same document
Load(html) == html


(***************************************************************************)
(* Scoring methods and analysis helpers of WebsiteAnalyzer.                *)
(***************************************************************************)
calculateContentScore(params) ==
    Min(100, 70 + (IF params.wordCount >= 300 THEN 10 ELSE 0)
                + (IF params.readabilityScore >= 60 THEN 10 ELSE 0)
                + (IF params.spellingIssues = 0 THEN 5 ELSE 0)
                + (IF params.hasClearValue THEN 5 ELSE 0))

calculateSEOScore(params) ==
    Min(100, 50 + (IF params.title >= 30 /\ params.title <= 60 THEN 15 ELSE 0)
                + (IF params.description >= 120 THEN 15 ELSE 0)
                + (IF params.properStructure THEN 10 ELSE 0)
                + (IF params.schemaMarkup THEN 5 ELSE 0)
                + (IF params.mobileOptimized THEN 5 ELSE 0))

calculatePerformanceScore(params) ==
    Max(0, Min(100, 80 - (IF params.scripts > 10 THEN 10 ELSE 0)
                       + (IF params.hasMinifiedCSS THEN 5 ELSE 0)
                       + (IF params.hasMinifiedJS THEN 5 ELSE 0)
                       + (IF params.hasLazyLoading THEN 10 ELSE 0)))

calculateDesignScore(params) ==
    Min(100, 60 + (IF params.visualHierarchy >= 70 THEN 15 ELSE 0)
                + (IF params.whitespace >= 70 THEN 10 ELSE 0)
                + (IF params.readableSize THEN 10 ELSE 0)
                + (IF params.fontVariety >= 3 /\ params.fontVariety <= 6 THEN 5 ELSE 0))

calculatePsychologyScore(params) ==
    Min(100, 50 + (IF params.trustSignals >= 3 THEN 20 ELSE 0)
                + (IF params.ctaCount >= 1 THEN 10 ELSE 0)
                + (IF params.ctaAboveFold THEN 10 ELSE 0)
                + (IF params.hasSocialProof THEN 10 ELSE 0))

\* a plausible slip: the accessibility score is not capped at 100
calculateAccessibilityScore_NoCap(params) ==
    LET bonus == (IF params.hasSemanticHTML THEN 10 ELSE 0)
                 + (IF params.hasLangAttr THEN 5 ELSE 0)
        den == 2 * params.ariaScore.den * params.altScore.den
        num == params.ariaScore.num * params.altScore.den
               + params.altScore.num * params.ariaScore.den
               + bonus * den
    IN  Round(num, den)

\* ariaScore and altScore are the rationals num/den;
\* score = (ariaScore + altScore) / 2 + bonuses, then Math.round
calculateAccessibilityScore(params) ==
    LET bonus == (IF params.hasSemanticHTML THEN 10 ELSE 0)
                 + (IF params.hasLangAttr THEN 5 ELSE 0)
        den == 2 * params.ariaScore.den * params.altScore.den
        num == params.ariaScore.num * params.altScore.den
               + params.altScore.num * params.ariaScore.den
               + bonus * den
    IN  Min(100, Round(num, den))

analyzeHeadingStructure(d) ==
    [ h1Count |-> d.h1, h2Count |-> d.h2, h3Count |-> d.h3,
      properHierarchy |-> (d.h1 = 1 /\ d.h2 > 0),
      score |-> IF d.h1 = 1 /\ d.h2 > 0 THEN 90 ELSE 60 ]

\* avgWordsPerSentence = words / max(sentences, 1), compared without division
calculateReadability(text) ==
    LET sentences == SplitLength(text, SentenceEnd)
        words == SplitLength(text, Whitespace)
        m == Max(sentences, 1)
    IN  IF words <= 15 * m THEN 90
        ELSE IF words <= 20 * m THEN 75
        ELSE IF words <= 25 * m THEN 60
        ELSE 40

commonMisspellings == << <<"r", "e", "c", "i", "e", "v", "e">>, <<"o", "c", "c", "u", "r", "e", "d">>, <<"s", "e", "p", "e", "r", "a", "t", "e">>, <<"d", "e", "f", "i", "n", "a", "t", "e", "l", "y">>, <<"a", "l", "o", "t">> >>

\* a plausible slip: the table lacks the entry of 'alot', so that
\* `corrections[word] || word` gives the word back
getCorrection_NoAlot(word) ==
    CASE word = <<"r", "e", "c", "i", "e", "v", "e">> -> <<"r", "e", "c", "e", "i", "v", "e">>
      [] word = <<"o", "c", "c", "u", "r", "e", "d">> -> <<"o", "c", "c", "u", "r", "r", "e", "d">>
      [] word = <<"s", "e", "p", "e", "r", "a", "t", "e">> -> <<"s", "e", "p", "a", "r", "a", "t", "e">>
      [] word = <<"d", "e", "f", "i", "n", "a", "t", "e", "l", "y">> -> <<"d", "e", "f", "i", "n", "i", "t", "e", "l", "y">>
      [] OTHER -> word

getCorrection(word) ==
    CASE word = <<"r", "e", "c", "i", "e", "v", "e">> -> <<"r", "e", "c", "e", "i", "v", "e">>
      [] word = <<"o", "c", "c", "u", "r", "e", "d">> -> <<"o", "c", "c", "u", "r", "r", "e", "d">>
      [] word = <<"s", "e", "p", "e", "r", "a", "t", "e">> -> <<"s", "e", "p", "a", "r", "a", "t", "e">>
      [] word = <<"d", "e", "f", "i", "n", "a", "t", "e", "l", "y">> -> <<"d", "e", "f", "i", "n", "i", "t", "e", "l", "y">>
      [] word = <<"a", "l", "o", "t">> -> <<"a", " ", "l", "o", "t">>
      [] OTHER -> word

RECURSIVE SpellingIssuesFrom(_, _)
SpellingIssuesFrom(words, text) ==
    IF words = <<>> THEN <<>>
    ELSE (IF Includes(toLowerCase(text), Head(words))
          THEN << [ word |-> Head(words),
                    suggestion |-> getCorrection(Head(words)),
                    position |-> indexOf(toLowerCase(text), Head(words)) ] >>
          ELSE <<>>)
         \o SpellingIssuesFrom(Tail(words), text)

detectSpellingIssues(text) == SpellingIssuesFrom(commonMisspellings, text)

detectGrammarIssues(text) ==
    IF Includes(text, <<"y", "o", "u", "r", " ", "w", "e", "l", "c", "o", "m", "e">>)
    THEN << [ text |-> <<"y", "o", "u", "r", " ", "w", "e", "l", "c", "o", "m", "e">>, suggestion |-> <<"y", "o", "u", "'", "r", "e", " ", "w", "e", "l", "c", "o", "m", "e">>, type |-> "grammar" ] >>
    ELSE <<>>

assessMessageClarity(d) ==
    IF d.h1Text > 20 /\ d.title > 20 THEN 90
    ELSE IF d.h1Text > 10 \/ d.title > 10 THEN 70
    ELSE 40

assessVisualHierarchy(d) ==
    IF d.h1 = 1 /\ d.h2 >= 2 /\ d.h3 >= 1 THEN 90
    ELSE IF d.h1 = 1 /\ d.h2 >= 1 THEN 75
    ELSE 50

\* density = elements / max(text, 1); > 0.01 and > 0.005 without division
assessWhitespace(d) ==
    LET m == Max(Len(d.text), 1)
    IN  IF 100 * d.elements > m THEN 80
        ELSE IF 200 * d.elements > m THEN 65
        ELSE 50

\* ratio = images / max(textLength / 1000, 1), compared without division
calculateImageTextBalance(images, textLength) ==
    LET m == Max(textLength, 1000)
    IN  IF 1000 * images > 5 * m
        THEN [ score |-> 50, recommendation |-> "Too many images relative to text content" ]
        ELSE IF 2000 * images < m /\ images > 0
        THEN [ score |-> 60, recommendation |-> "Consider adding more visuals to break up text" ]
        ELSE IF images = 0
        THEN [ score |-> 40, recommendation |-> "Add images to enhance visual appeal" ]
        ELSE [ score |-> 85, recommendation |-> "Good balance between images and text" ]

detectTrustSignals(d) ==
    [ score |-> [ num |-> 100 * Cardinality(d.trustPresent),
                  den |-> Cardinality(TrustSignalNames) ],
      present |-> d.trustPresent,
      missing |-> TrustSignalNames \ d.trustPresent ]

assessCTAClarity(d) ==
    IF d.ctas = 0 THEN 0
    ELSE IF d.ctaActionWord /\ d.ctas >= 1 /\ d.ctas <= 3 THEN 90
    ELSE IF d.ctaActionWord THEN 75
    ELSE IF d.ctas > 0 THEN 60
    ELSE 30


(***************************************************************************)
(* The six analysis modules.  self is the analyzer instance               *)
(* [html, dollar, url]; each module reads self.dollar (and analyzeSEO      *)
(* self.url) and returns its result.                                       *)
(***************************************************************************)
Take(q, n) == SubSeq(q, 1, Min(n, Len(q)))

RECURSIVE Dedup(_)
Dedup(q) ==
    IF q = <<>> THEN <<>>
    ELSE LET r == Dedup(SubSeq(q, 1, Len(q) - 1))
         IN  IF \E i \in 1 .. Len(r) : r[i] = q[Len(q)] THEN r
             ELSE Append(r, q[Len(q)])

\* array.filter(...).length / the number of elements a selector matches,
\* given which elements pass
CountTrue(flags) == Cardinality({ i \in 1 .. Len(flags) : flags[i] })

analyzeContent(self) ==
    LET d == DocList[self.dollar]
        text == d.text
        wordCount == NonEmptyWords(text)
        hasCTA == d.hasCTAText
        hasClearValue == d.title > 10 /\ d.h1Text > 10
        readabilityScore == calculateReadability(text)
        spellingIssues == detectSpellingIssues(text)
        grammarIssues == detectGrammarIssues(text)
        messageClarity == assessMessageClarity(d)
    IN  [ score |-> calculateContentScore(
                      [ wordCount |-> wordCount,
                        readabilityScore |-> readabilityScore,
                        spellingIssues |-> Len(spellingIssues),
                        grammarIssues |-> Len(grammarIssues),
                        hasClearValue |-> hasClearValue,
                        hasCTA |-> hasCTA,
                        messageClarity |-> messageClarity ]),
          wordCount |-> wordCount,
          readabilityScore |-> readabilityScore,
          spellingIssues |-> Take(spellingIssues, 5),
          grammarIssues |-> Take(grammarIssues, 5),
          headingStructure |-> analyzeHeadingStructure(d),
          contentQuality |-> [ hasClearValue |-> hasClearValue,
                               hasCallToAction |-> hasCTA,
                               messageClarity |-> messageClarity ] ]

\* the selector [href^="p"] matches no element when p is empty
HrefStartsWith(href, p) == p # <<>> /\ StartsWith(href, p)

analyzeSEO(self) ==
    LET d == DocList[self.dollar]
        h1Count == d.h1
        properStructure == h1Count = 1 /\ d.h2 > 0
        missingAlt == d.imagesNoAlt
        IsInternal(href) == HrefStartsWith(href, <<"/">>) \/ HrefStartsWith(href, self.url)
        IsExternal(href) == HrefStartsWith(href, <<"h", "t", "t", "p">>) /\ ~HrefStartsWith(href, self.url)
    IN  [ score |-> calculateSEOScore(
                      [ title |-> d.title,
                        description |-> d.description,
                        h1Count |-> h1Count,
                        properStructure |-> properStructure,
                        missingAlt |-> missingAlt,
                        totalImages |-> d.images,
                        schemaMarkup |-> d.schemaMarkup,
                        mobileOptimized |-> d.viewport ]),
          metaTags |-> [ title |-> [ present |-> d.title > 0,
                                     length |-> d.title,
                                     optimized |-> (d.title >= 30 /\ d.title <= 60) ],
                         description |-> [ present |-> d.description > 0,
                                           length |-> d.description,
                                           optimized |-> (d.description >= 120
                                                          /\ d.description <= 160) ] ],
          headings |-> [ h1Count |-> h1Count, properStructure |-> properStructure ],
          images |-> [ total |-> d.images,
                       missingAlt |-> missingAlt,
                       optimizationScore |-> [ num |-> 100 * (d.images - missingAlt),
                                               den |-> Max(d.images, 1) ] ],
          internalLinks |-> CountTrue([i \in 1 .. Len(d.links) |-> IsInternal(d.links[i])]),
          externalLinks |-> CountTrue([i \in 1 .. Len(d.links) |-> IsExternal(d.links[i])]),
          schemaMarkup |-> d.schemaMarkup,
          mobileOptimized |-> d.viewport ]

\* estimatedLoadTime is kept in hundredths of a second
analyzePerformance(self) ==
    LET d == DocList[self.dollar]
        hasLazyLoading == d.lazyImages > 0
        estimatedLoadTime == d.scripts * 20 + d.styles * 15 + d.images * 10
    IN  [ score |-> calculatePerformanceScore(
                      [ scripts |-> d.scripts,
                        styles |-> d.styles,
                        images |-> d.images,
                        hasMinifiedCSS |-> d.minCSS,
                        hasMinifiedJS |-> d.minJS,
                        hasLazyLoading |-> hasLazyLoading,
                        estimatedLoadTime |-> estimatedLoadTime ]),
          estimatedLoadTime |-> estimatedLoadTime,
          resourcesSize |-> [ images |-> d.images, scripts |-> d.scripts,
                              styles |-> d.styles ],
          optimizations |-> [ minifiedCSS |-> d.minCSS,
                              minifiedJS |-> d.minJS,
                              compressedImages |-> FALSE,
                              lazyLoading |-> hasLazyLoading ] ]

analyzeDesign(self) ==
    LET d == DocList[self.dollar]
        fontSizes == d.fontSizes
        uniqueFontSizes == Dedup(fontSizes)
        readableSize == \E i \in 1 .. Len(fontSizes) : fontSizes[i] >= 16
        visualHierarchy == assessVisualHierarchy(d)
        whitespace == assessWhitespace(d)
        imageTextBalance == calculateImageTextBalance(d.images, Len(d.text))
    IN  [ score |-> calculateDesignScore(
                      [ visualHierarchy |-> visualHierarchy,
                        whitespace |-> whitespace,
                        readableSize |-> readableSize,
                        fontVariety |-> Len(uniqueFontSizes),
                        imageTextBalance |-> imageTextBalance.score ]),
          visualHierarchy |-> visualHierarchy,
          whitespace |-> whitespace,
          colorContrast |-> [ score |-> 75, issues |-> <<>> ],
          typography |-> [ fontSizes |-> Take(uniqueFontSizes, 10),
                           readableSize |-> readableSize,
                           fontVariety |-> Len(uniqueFontSizes) ],
          imageTextBalance |-> imageTextBalance ]

analyzePsychology(self) ==
    LET d == DocList[self.dollar]
        trustSignals == detectTrustSignals(d)
        ctaAboveFold == d.ctas > 0
        ctaClarity == assessCTAClarity(d)
    IN  [ score |-> calculatePsychologyScore(
                      [ trustSignals |-> Cardinality(trustSignals.present),
                        ctaCount |-> d.ctas,
                        ctaAboveFold |-> ctaAboveFold,
                        ctaClarity |-> ctaClarity,
                        hasUrgency |-> d.ctaUrgency,
                        hasSocialProof |-> d.socialProof ]),
          trustSignals |-> trustSignals,
          ctaPlacement |-> [ score |-> ctaClarity, ctaCount |-> d.ctas,
                             aboveFold |-> ctaAboveFold, clarity |-> ctaClarity ],
          colorPsychology |-> [ score |-> 70, dominantColors |-> <<>>,
                                emotionalImpact |-> "Professional",
                                brandAlignment |-> 75 ],
          urgencyTriggers |-> d.ctaUrgency,
          socialProof |-> d.socialProof ]

\* a plausible slip: `> 80` for the AA label
AccessibilityOf_Above80(d) ==
    LET ariaScore == IF d.ariaNeeding > 0
                     THEN [ num |-> 100 * d.ariaWith, den |-> d.ariaNeeding ]
                     ELSE [ num |-> 100, den |-> 1 ]
        altScore == IF d.images > 0
                    THEN [ num |-> 100 * d.imagesAltAttr, den |-> d.images ]
                    ELSE [ num |-> 100, den |-> 1 ]
        score == calculateAccessibilityScore(
                      [ ariaScore |-> ariaScore, altScore |-> altScore,
                        hasSemanticHTML |-> d.semantic, hasLangAttr |-> d.lang ])
    IN  [ score |-> score,
          wcagCompliance |-> IF score > 80 THEN "AA"
                             ELSE IF score >= 60 THEN "A"
                             ELSE "Needs Improvement",
          ariaLabels |-> [ score |-> ariaScore,
                           missing |-> d.ariaNeeding - d.ariaWith ],
          keyboardNavigation |-> TRUE,
          screenReaderFriendly |-> (d.semantic /\ ariaScore.num > 50 * ariaScore.den),
          contrastRatio |-> 45 ]   \* 4.5, in tenths

\* analyzeAccessibility on the document d that this.$ holds
AccessibilityOf(d) ==
    LET ariaScore == IF d.ariaNeeding > 0
                     THEN [ num |-> 100 * d.ariaWith, den |-> d.ariaNeeding ]
                     ELSE [ num |-> 100, den |-> 1 ]
        altScore == IF d.images > 0
                    THEN [ num |-> 100 * d.imagesAltAttr, den |-> d.images ]
                    ELSE [ num |-> 100, den |-> 1 ]
        score == calculateAccessibilityScore(
                      [ ariaScore |-> ariaScore, altScore |-> altScore,
                        hasSemanticHTML |-> d.semantic, hasLangAttr |-> d.lang ])
    IN  [ score |-> score,
          wcagCompliance |-> IF score >= 80 THEN "AA"
                             ELSE IF score >= 60 THEN "A"
                             ELSE "Needs Improvement",
          ariaLabels |-> [ score |-> ariaScore,
                           missing |-> d.ariaNeeding - d.ariaWith ],
          keyboardNavigation |-> TRUE,
          screenReaderFriendly |-> (d.semantic /\ ariaScore.num > 50 * ariaScore.den),
          contrastRatio |-> 45 ]   \* 4.5, in tenths

analyzeAccessibility(self) == AccessibilityOf(DocList[self.dollar])


(***************************************************************************)
(* analyze(): the Promise.all fan-out, the overall score, the              *)
(* recommendations and the result.                                         *)
(***************************************************************************)
Modules == {"content", "seo", "performance", "design", "psychology", "accessibility"}

\* the order of the array passed to Promise.all
ModuleOrder == <<"content", "seo", "performance", "design", "psychology", "accessibility">>

ModuleResult(m, self) ==
    CASE m = "content" -> analyzeContent(self)
      [] m = "seo" -> analyzeSEO(self)
      [] m = "performance" -> analyzePerformance(self)
      [] m = "design" -> analyzeDesign(self)
      [] m = "psychology" -> analyzePsychology(self)
      [] m = "accessibility" -> analyzeAccessibility(self)

\* a plausible slip: the content module strips elements from the shared
\* document before it reads the text
ModuleEffect_Strips(m, self) ==
    IF m = "content" THEN [self EXCEPT !.dollar = 2] ELSE self

\* what a module leaves in the instance fields: no module assigns this.html,
\* this.$ or this.url, and none calls a mutating cheerio method
ModuleEffect(m, self) == self

\* `if (!this.$) throw new Error('HTML not loaded')`
HtmlNotLoaded == <<"H", "T", "M", "L", " ", "n", "o", "t", " ", "l", "o", "a", "d", "e", "d">>
ModuleFault == <<"x", " ", "i", "s", " ", "n", "o", "t", " ", "a", " ", "f", "u", "n", "c", "t", "i", "o", "n">>

\* run the modules in the given order; faults are the modules in which an
\* unexpected exception is raised
RECURSIVE RunModules(_, _, _)
RunModules(order, self, faults) ==
    IF order = <<>>
    THEN [ self |-> self, results |-> << >>, errors |-> << >> ]
    ELSE LET n == Len(order)
             m == order[n]
             before == RunModules(SubSeq(order, 1, n - 1), self, faults)
             me == before.self
             threw == me.dollar = NoDoc \/ m \in faults
         IN  [ self |-> IF threw THEN me ELSE ModuleEffect(m, me),
               results |-> IF threw THEN before.results
                           ELSE before.results @@ (m :> ModuleResult(m, me)),
               errors |-> IF threw
                          THEN before.errors @@
                               (m :> IF me.dollar = NoDoc THEN HtmlNotLoaded
                                     ELSE ModuleFault)
                          ELSE before.errors ]

\* a plausible slip: weights that sum to 110%
weights_Sum110 == [ content |-> 25, seo |-> 20, performance |-> 15, design |-> 15,
                    psychology |-> 15, accessibility |-> 20 ]

\* weights in percent
weights == [ content |-> 25, seo |-> 20, performance |-> 15, design |-> 15,
             psychology |-> 15, accessibility |-> 10 ]

WeightedSum(analyses) ==
    analyses.contentAnalysis.score * weights.content
    + analyses.seoAnalysis.score * weights.seo
    + analyses.performanceAnalysis.score * weights.performance
    + analyses.designAnalysis.score * weights.design
    + analyses.psychologyAnalysis.score * weights.psychology
    + analyses.accessibilityAnalysis.score * weights.accessibility

\* Math.round of the weighted sum.  The sum is evaluated in binary floating
\* point: when the exact sum is k + 1/2 it comes out as k + 1/2 or just
\* below it, so both k and k + 1 are possible there; anywhere else the
\* nearest integer is the result.
calculateOverallScore(analyses) ==
    LET n == WeightedSum(analyses)
    IN  IF n % 100 = 50 THEN { n \div 100, n \div 100 + 1 }
        ELSE { (n + 50) \div 100 }

\* a plausible slip: `<= 70` for the psychology score
generateRecommendations_AtMost70(analyses) ==
    [ criticalIssues |->
        (IF ~analyses.seoAnalysis.metaTags.title.present
         THEN << [ severity |-> "critical", category |-> "SEO",
                   title |-> "Missing Page Title", premium |-> FALSE ] >>
         ELSE << >>)
        \o
        (IF ~analyses.seoAnalysis.metaTags.description.present
         THEN << [ severity |-> "high", category |-> "SEO",
                   title |-> "Missing Meta Description", premium |-> FALSE ] >>
         ELSE << >>),
      quickWins |->
        (IF Len(analyses.contentAnalysis.spellingIssues) > 0
         THEN << [ title |-> "Fix Spelling Errors",
                   found |-> Len(analyses.contentAnalysis.spellingIssues),
                   impact |-> "high", effort |-> "low", category |-> "Content",
                   premium |-> Len(analyses.contentAnalysis.spellingIssues) > 5 ] >>
         ELSE << >>)
        \o
        (IF ~analyses.performanceAnalysis.optimizations.lazyLoading
         THEN << [ title |-> "Implement Lazy Loading",
                   found |-> 0,
                   impact |-> "medium", effort |-> "low", category |-> "Performance",
                   premium |-> FALSE ] >>
         ELSE << >>),
      strategicImprovements |->
        (IF analyses.psychologyAnalysis.score <= 70
         THEN << [ title |-> "Enhance Trust Signals",
                   impact |-> "high", effort |-> "medium", category |-> "Psychology",
                   premium |-> TRUE ] >>
         ELSE << >>)
        \o
        (IF analyses.designAnalysis.score < 70
         THEN << [ title |-> "Improve Visual Hierarchy",
                   impact |-> "high", effort |-> "medium", category |-> "Design",
                   premium |-> TRUE ] >>
         ELSE << >>) ]

generateRecommendations(analyses) ==
    [ criticalIssues |->
        (IF ~analyses.seoAnalysis.metaTags.title.present
         THEN << [ severity |-> "critical", category |-> "SEO",
                   title |-> "Missing Page Title", premium |-> FALSE ] >>
         ELSE << >>)
        \o
        (IF ~analyses.seoAnalysis.metaTags.description.present
         THEN << [ severity |-> "high", category |-> "SEO",
                   title |-> "Missing Meta Description", premium |-> FALSE ] >>
         ELSE << >>),
      quickWins |->
        (IF Len(analyses.contentAnalysis.spellingIssues) > 0
         THEN << [ title |-> "Fix Spelling Errors",
                   found |-> Len(analyses.contentAnalysis.spellingIssues),
                   impact |-> "high", effort |-> "low", category |-> "Content",
                   premium |-> Len(analyses.contentAnalysis.spellingIssues) > 5 ] >>
         ELSE << >>)
        \o
        (IF ~analyses.performanceAnalysis.optimizations.lazyLoading
         THEN << [ title |-> "Implement Lazy Loading",
                   found |-> 0,
                   impact |-> "medium", effort |-> "low", category |-> "Performance",
                   premium |-> FALSE ] >>
         ELSE << >>),
      strategicImprovements |->
        (IF analyses.psychologyAnalysis.score < 70
         THEN << [ title |-> "Enhance Trust Signals",
                   impact |-> "high", effort |-> "medium", category |-> "Psychology",
                   premium |-> TRUE ] >>
         ELSE << >>)
        \o
        (IF analyses.designAnalysis.score < 70
         THEN << [ title |-> "Improve Visual Hierarchy",
                   impact |-> "high", effort |-> "medium", category |-> "Design",
                   premium |-> TRUE ] >>
         ELSE << >>) ]

Flags(q, premium) == [i \in 1 .. Len(q) |-> q[i].premium = premium]

\* a plausible slip: the quick wins are left out of the free count
countFreeInsights_CriticalOnly(criticalIssues, quickWins) ==
    CountTrue(Flags(criticalIssues, FALSE))

countFreeInsights(criticalIssues, quickWins) ==
    CountTrue(Flags(criticalIssues, FALSE)) + CountTrue(Flags(quickWins, FALSE))

countPremiumInsights(criticalIssues, quickWins, strategic) ==
    CountTrue(Flags(criticalIssues, TRUE)) + CountTrue(Flags(quickWins, TRUE))
    + CountTrue(Flags(strategic, TRUE))

Analyses(results) ==
    [ contentAnalysis |-> results["content"],
      seoAnalysis |-> results["seo"],
      performanceAnalysis |-> results["performance"],
      designAnalysis |-> results["design"],
      psychologyAnalysis |-> results["psychology"],
      accessibilityAnalysis |-> results["accessibility"] ]

\* the object returned by analyze (timestamp left out)
AnalysisResult(url, results, overallScore) ==
    LET analyses == Analyses(results)
        recs == generateRecommendations(analyses)
    IN  [ url |-> url,
          overallScore |-> overallScore,
          contentAnalysis |-> analyses.contentAnalysis,
          seoAnalysis |-> analyses.seoAnalysis,
          performanceAnalysis |-> analyses.performanceAnalysis,
          designAnalysis |-> analyses.designAnalysis,
          psychologyAnalysis |-> analyses.psychologyAnalysis,
          accessibilityAnalysis |-> analyses.accessibilityAnalysis,
          criticalIssues |-> recs.criticalIssues,
          quickWins |-> recs.quickWins,
          strategicImprovements |-> recs.strategicImprovements,
          freeInsightsCount |->
              countFreeInsights(recs.criticalIssues, recs.quickWins),
          premiumInsightsAvailable |->
              countPremiumInsights(recs.criticalIssues, recs.quickWins,
                                   recs.strategicImprovements) ]

\* `Analysis failed: ${error.message}` of analyze's catch
AnalysisFailedPrefix == <<"A", "n", "a", "l", "y", "s", "i", "s", " ", "f", "a", "i", "l", "e", "d", ":", " ">>
WrapError(message) == AnalysisFailedPrefix \o message

\* the first rejection Promise.all sees: that of the first module, in array
\* order, that threw
FirstError(errors) ==
    LET i == CHOOSE i \in 1 .. Len(ModuleOrder) :
                /\ ModuleOrder[i] \in DOMAIN errors
                /\ \A j \in 1 .. (i - 1) : ModuleOrder[j] \notin DOMAIN errors
    IN  errors[ModuleOrder[i]]

\* what analyze does once the fetched document is in this.$: the outcomes
\* of the call and the fields of the instance afterwards
AnalyzeAfterFetch(self, url, faults) ==
    LET run == RunModules(ModuleOrder, self, faults)
    IN  IF DOMAIN run.errors # {}
        THEN { [ self |-> run.self, kind |-> "threw",
                 message |-> WrapError(FirstError(run.errors)) ] }
        ELSE { [ self |-> run.self, kind |-> "ok",
                 result |-> AnalysisResult(url, run.results, o) ] :
               o \in calculateOverallScore(Analyses(run.results)) }


(***************************************************************************)
(* State.                                                                  *)
(***************************************************************************)
VARIABLES
    handler,       \* which version of route.ts serves POST: "analyzer" or "mock"
    nodeEnv,       \* process.env.NODE_ENV
    caller,        \* "route": analyze is called by POST; "direct": by other code
    pc,            \* per call: where the request / the analyze call stands
    body,          \* per call: the request body POST received
    responses,     \* per call: the responses sent for the request
    created,       \* per call: WebsiteAnalyzer instances the request constructed
    inst,          \* per call: the instance analyze runs on (0: none)
    argUrl,        \* per call: the url argument of analyze
    elapsed,       \* per call: ms since the outbound fetch was issued
    fetchLog,      \* per call: the URLs of the outbound fetches issued
    fetched,       \* per call: the document its fetch returned (NoDoc: none)
    outcome,       \* per call: what analyze returned or threw
    fields,        \* per instance: [html, dollar, url]
    localStorage,  \* the browser's localStorage: key -> value
    analyses,      \* six module scores handed to calculateOverallScore
    overallScore,  \* the score computed from them (-1: none yet)
    arg,           \* the argument of the function applied on its own
    ret,           \* what it returned ([ kind |-> "none" ]: not applied yet)
    location,      \* the route the browser shows: "/" or "/results"
    homeUrl,       \* Home: the `url` state (the input's value)
    isLoading,     \* Home: the `isLoading` state
    homeId,        \* Home: which mounted instance this is (1: the first)
    submits,       \* the runs of handleSubmit, in order
    reportData,    \* Results: the `data` state (JsNull: null)
    shownUrl,      \* Results: the `url` state
    effectDue      \* Results: mounted, its first effect has not run yet

\* the state of the function applied on its own
pureVars == << arg, ret >>

\* the state of the two pages (localStorage apart)
pageVars == << location, homeUrl, isLoading, homeId, submits, reportData, shownUrl,
              effectDue >>

\* the state of the route handler and of the analyzer
routeVars == << handler, nodeEnv, pc, body, responses, created, inst, argUrl,
                elapsed, fetchLog, fetched, outcome, fields, analyses,
                overallScore >>

vars == << routeVars, caller, localStorage, pureVars, pageVars >>

\* no function is applied on its own
NoRet == [ kind |-> "none" ]
NotApplied ==
    /\ arg = << >>
    /\ ret = NoRet

\* the landing page as first rendered: useState('') and useState(false);
\* the results page is not mounted
HomeMounted ==
    /\ location = "/"
    /\ homeUrl = << >>
    /\ isLoading = FALSE
    /\ homeId = 1
    /\ submits = << >>
    /\ reportData = JsNull
    /\ shownUrl = << >>
    /\ effectDue = FALSE

(***************************************************************************)
(* Inputs.                                                                 *)
(***************************************************************************)
UrlValues ==
    { JsUndefined, JsNull, JsFalse, JsZero, JsString(<<>>),
      JsTrue, JsFive,
      JsString(UrlA), JsString(UrlB),
      JsString(<<"a">>), JsString(<<"h", "t", "t", "p", ":">>), JsString(<<"x", ":", "a">>),
      JsString(<<" ", "h", "t", "t", "p", ":", "/", "/", "a", " ">>), JsString(<<"/", "/", "a">>), JsString(<<"h", "t", "t", "p", ":", "/", "/", "a", " ", "b">>) }

\* what `await req.json()` yields: a rejection (the body is not JSON), null,
\* or a value whose `url` property is one of UrlValues
NoBody == [ kind |-> "none", url |-> JsUndefined ]
Bodies ==
    { [ kind |-> "invalid", url |-> JsUndefined ],
      [ kind |-> "null", url |-> JsUndefined ] }
    \cup { [ kind |-> "object", url |-> u ] : u \in UrlValues }

JsonSyntaxError == <<"U", "n", "e", "x", "p", "e", "c", "t", "e", "d", " ", "t", "o", "k", "e", "n">>
DestructureError == <<"C", "a", "n", "n", "o", "t", " ", "d", "e", "s", "t", "r", "u", "c", "t", "u", "r", "e">>

\* the errors axios.get rejects with before the timeout
FetchErrors == { <<"g", "e", "t", "a", "d", "d", "r", "i", "n", "f", "o", " ", "E", "N", "O", "T", "F", "O", "U", "N", "D", " ", "a">>, <<"s", "t", "a", "t", "u", "s", " ", "c", "o", "d", "e", " ", "4", "0", "4">> }
\* `timeout of 10000ms exceeded`
TimeoutError == <<"t", "i", "m", "e", "o", "u", "t", " ", "o", "f", " ", "1", "0", "0", "0", "0", "m", "s", " ", "e", "x", "c", "e", "e", "d", "e", "d">>

FaultSets == { {} } \cup { {m} : m \in Modules }

InitialFields == [ html |-> NoDoc, dollar |-> NoDoc, url |-> << >> ]
NoOutcome == [ kind |-> "none" ]


(***************************************************************************)
(* POST /api/analyze, the version that runs the analyzer.                  *)
(***************************************************************************)
\* a plausible slip: only a missing field is rejected
UrlMissing_OnlyUndefined(url) == url.t = "undefined"

\* `if (!url)`
UrlMissing(url) == ~Truthy(url)

\* a plausible slip: the format check is left out
UrlInvalid_Skipped(url) == FALSE

\* `try { new URL(url) } catch { ... }`
UrlInvalid(url) == ~URLParses(JsToString(url))

UrlRequired == [ status |-> 400, body |-> [ error |-> "URL is required" ] ]
InvalidUrlFormat ==
    [ status |-> 400,
      body |-> [ error |-> "Invalid URL format. Please enter a valid website URL." ] ]

\* a plausible slip: the two tests of the message in the other order
UserMessage_TimeoutFirst(errorMessage) ==
    IF Includes(errorMessage, <<"t", "i", "m", "e", "o", "u", "t">>)
    THEN "Website took too long to respond. Please try again."
    ELSE IF Includes(errorMessage, <<"E", "N", "O", "T", "F", "O", "U", "N", "D">>)
    THEN "Could not reach the website. Please check the URL and try again."
    ELSE "Unable to analyze the website. Please try a different URL."

UserMessage(errorMessage) ==
    IF Includes(errorMessage, <<"E", "N", "O", "T", "F", "O", "U", "N", "D">>)
    THEN "Could not reach the website. Please check the URL and try again."
    ELSE IF Includes(errorMessage, <<"t", "i", "m", "e", "o", "u", "t">>)
    THEN "Website took too long to respond. Please try again."
    ELSE "Unable to analyze the website. Please try a different URL."

\* a plausible slip: the catch block forgets `{ status: 500 }`
RouteCatch_NoStatus(errorMessage, env) ==
    [ status |-> 200,
      body |-> [ error |-> "Analysis failed",
                 message |-> "Unable to analyze the website. Please try a different URL." ] ]

\* the catch block of POST; JSON drops the undefined `details`
RouteCatch(errorMessage, env) ==
    [ status |-> 500,
      body |-> IF env = "development"
               THEN [ error |-> "Analysis failed",
                      message |-> UserMessage(errorMessage),
                      details |-> errorMessage ]
               ELSE [ error |-> "Analysis failed",
                      message |-> UserMessage(errorMessage) ] ]

RouteOk(analysis) ==
    [ status |-> 200,
      body |-> [ success |-> TRUE,
                 analysis |-> analysis,
                 tier |-> "free",
                 upgradeAvailable |-> analysis.premiumInsightsAvailable > 0 ] ]

\* how POST turns what `await analyzer.analyze(url)` yields into a response
RouteResponse(out, env) ==
    IF out.kind = "ok" THEN RouteOk(out.result)
    ELSE RouteCatch(out.message, env)

\* axios.get(url, ...): one outbound request
IssueFetch(log, url) == Append(log, url)

\* the synchronous start of analyze(url) on instance i by call r:
\* this.url = url, then fetchWebsite issues the request and awaits it
StartAnalyze(r, i, url) ==
    /\ inst' = [inst EXCEPT ![r] = i]
    /\ argUrl' = [argUrl EXCEPT ![r] = url]
    /\ fields' = [fields EXCEPT ![i].url = url]
    /\ fetchLog' = [fetchLog EXCEPT ![r] = IssueFetch(@, url)]
    /\ elapsed' = [elapsed EXCEPT ![r] = 0]
    /\ pc' = [pc EXCEPT ![r] = "fetching"]

Respond(r, resp) ==
    /\ responses' = [responses EXCEPT ![r] = Append(@, resp)]
    /\ pc' = [pc EXCEPT ![r] = "done"]

\* a client sends POST /api/analyze
Post(r) ==
    /\ caller = "route"
    /\ r = 1
    /\ pc[r] = "idle"
    /\ \E b \in Bodies : body' = [body EXCEPT ![r] = b]
    /\ pc' = [pc EXCEPT ![r] = "json"]
    /\ UNCHANGED << pureVars, pageVars, handler, nodeEnv, caller, responses, created, inst, argUrl,
                    elapsed, fetchLog, fetched, outcome, fields, localStorage,
                    analyses, overallScore >>

\* POST from `await req.json()` up to a response or to the await of analyze
HandleBody(r) ==
    /\ caller = "route"
    /\ handler = "analyzer"
    /\ pc[r] = "json"
    /\ LET b == body[r]
       IN  IF b.kind = "invalid"
           THEN /\ Respond(r, RouteCatch(JsonSyntaxError, nodeEnv))
                /\ UNCHANGED << created, inst, argUrl, elapsed, fetchLog, fields >>
           ELSE IF b.kind = "null"
           THEN /\ Respond(r, RouteCatch(DestructureError, nodeEnv))
                /\ UNCHANGED << created, inst, argUrl, elapsed, fetchLog, fields >>
           ELSE IF UrlMissing(b.url)
           THEN /\ Respond(r, UrlRequired)
                /\ UNCHANGED << created, inst, argUrl, elapsed, fetchLog, fields >>
           ELSE IF UrlInvalid(b.url)
           THEN /\ Respond(r, InvalidUrlFormat)
                /\ UNCHANGED << created, inst, argUrl, elapsed, fetchLog, fields >>
           ELSE \* new WebsiteAnalyzer(); analyzer.analyze(url)
                /\ created' = [created EXCEPT ![r] = @ + 1]
                /\ StartAnalyze(r, r, b.url.v)
                /\ UNCHANGED responses
    /\ UNCHANGED << pureVars, pageVars, handler, nodeEnv, caller, body, fetched, outcome, localStorage,
                    analyses, overallScore >>

(***************************************************************************)
(* The outbound fetch of fetchWebsite and the rest of analyze.             *)
(***************************************************************************)
\* a plausible slip: axios.get is called without a timeout
TimedOut_Never(ms) == FALSE

\* axios aborts the request once `timeout: 10000` ms have passed
TimedOut(ms) == ms >= FetchTimeoutMs

\* time passes while the request is pending
Tick(r) ==
    /\ pc[r] = "fetching"
    /\ elapsed[r] < FetchTimeoutMs
    /\ elapsed' = [elapsed EXCEPT ![r] = @ + TickMs]
    /\ UNCHANGED << pureVars, pageVars, handler, nodeEnv, caller, pc, body, responses, created, inst,
                    argUrl, fetchLog, fetched, outcome, fields, localStorage,
                    analyses, overallScore >>

\* analyze has returned or thrown `out`
Settle(r, out) ==
    /\ outcome' = [outcome EXCEPT ![r] = out]
    /\ pc' = [pc EXCEPT ![r] = "done"]
    /\ responses' = IF caller = "route"
                    THEN [responses EXCEPT ![r] = Append(@, RouteResponse(out, nodeEnv))]
                    ELSE responses

\* axios.get can bring a response only from an http: or https: URL
SupportedProtocol(url) ==
    LET s == DropTrailingSpace(DropWhileSpace(url))
    IN  \/ StartsWith(s, <<"h", "t", "t", "p", ":">>)
        \/ StartsWith(s, <<"h", "t", "t", "p", "s", ":">>)

\* the response arrives: fetchWebsite stores and parses it, the six modules
\* run, analyze returns its result or throws
FetchResolve(r) ==
    /\ pc[r] = "fetching"
    /\ ~TimedOut(elapsed[r])
    /\ SupportedProtocol(argUrl[r])
    /\ \E doc \in DocIds, faults \in FaultSets :
         LET self == [fields[inst[r]] EXCEPT !.html = doc, !.dollar = Load(doc)]
         IN  \E after \in AnalyzeAfterFetch(self, argUrl[r], faults) :
               /\ fetched' = [fetched EXCEPT ![r] = doc]
               /\ fields' = [fields EXCEPT ![inst[r]] = after.self]
               /\ Settle(r, IF after.kind = "ok"
                            THEN [ kind |-> "ok", result |-> after.result ]
                            ELSE [ kind |-> "threw", message |-> after.message ])
    /\ UNCHANGED << pureVars, pageVars, handler, nodeEnv, caller, body, created, inst, argUrl, elapsed,
                    fetchLog, localStorage, analyses, overallScore >>

\* a plausible slip: analyze fetches once more after a failed fetch
OnFetchError_Retry(r, err) ==
    IF Len(fetchLog[r]) < 2
    THEN /\ fetchLog' = [fetchLog EXCEPT ![r] = IssueFetch(@, argUrl[r])]
         /\ elapsed' = [elapsed EXCEPT ![r] = 0]
         /\ UNCHANGED << pc, outcome, responses >>
    ELSE /\ Settle(r, [ kind |-> "threw", message |-> WrapError(err) ])
         /\ UNCHANGED << fetchLog, elapsed >>

\* axios.get rejected with err: fetchWebsite rethrows, analyze's catch wraps
\* the error and throws; no other request is issued
OnFetchError(r, err) ==
    /\ Settle(r, [ kind |-> "threw", message |-> WrapError(err) ])
    /\ UNCHANGED << fetchLog, elapsed >>

\* the request fails (DNS, connection, HTTP status)
FetchReject(r) ==
    /\ pc[r] = "fetching"
    /\ ~TimedOut(elapsed[r])
    /\ \E err \in FetchErrors : OnFetchError(r, err)
    /\ UNCHANGED << pureVars, pageVars, handler, nodeEnv, caller, body, created, inst, argUrl,
                    fetched, fields, localStorage, analyses, overallScore >>

\* the request times out
FetchTimeout(r) ==
    /\ pc[r] = "fetching"
    /\ TimedOut(elapsed[r])
    /\ OnFetchError(r, TimeoutError)
    /\ UNCHANGED << pureVars, pageVars, handler, nodeEnv, caller, body, created, inst, argUrl,
                    fetched, fields, localStorage, analyses, overallScore >>

(***************************************************************************)
(* POST /api/analyze, the mock version.                                    *)
(***************************************************************************)
\* the numerators of the values Math.random() is given in the model
MockRandoms == { 0, RandDen \div 2, RandDen - 1 }

\* Math.floor(Math.random() * k) for Math.random() = rand / RandDen
FloorRandom(rand, k) == (rand * k) \div RandDen

MockTotalScore(rand) == FloorRandom(rand, 40) + 60

\* a plausible slip: the category score drawn on the scale of the total
MockCategoryScore_Scale40(rand) == FloorRandom(rand, 40) + 12

MockCategoryScore(rand) == FloorRandom(rand, 8) + 12

CategoryKeys == {"clarity", "ux", "mobile", "copy", "speed"}

MockIssues ==
    << "Headline doesn't clearly explain what you offer",
       "Call-to-action button is below the fold",
       "Mobile layout spacing feels cramped",
       "Loading speed could be improved",
       "Navigation menu is confusing",
       "Value proposition is unclear" >>

MockRecommendations ==
    << "Use a simple, benefit-driven headline that explains your core value",
       "Move your primary CTA button above the fold for better visibility",
       "Increase padding and spacing on mobile sections for better readability",
       "Optimize images and reduce page load time to under 3 seconds",
       "Simplify navigation with clear, descriptive menu labels",
       "Add social proof and testimonials near your main value proposition" >>

\* rands: the six values of Math.random(), in the order they are drawn
MockData(rands) ==
    [ total_score |-> MockTotalScore(rands[1]),
      categories |-> [ clarity |-> MockCategoryScore(rands[2]),
                       ux |-> MockCategoryScore(rands[3]),
                       mobile |-> MockCategoryScore(rands[4]),
                       copy |-> MockCategoryScore(rands[5]),
                       speed |-> MockCategoryScore(rands[6]) ],
      issues |-> Take(MockIssues, 3),
      recommendations |-> Take(MockRecommendations, 3) ]

MockCatch == [ status |-> 500, body |-> [ error |-> "Failed to analyze website" ] ]

\* the mock POST from `await req.json()` up to a response or to the timer
HandleBodyMock(r) ==
    /\ caller = "route"
    /\ handler = "mock"
    /\ pc[r] = "json"
    /\ LET b == body[r]
       IN  IF b.kind \in {"invalid", "null"}
           THEN /\ Respond(r, MockCatch)
                /\ UNCHANGED elapsed
           ELSE IF UrlMissing(b.url)
           THEN /\ Respond(r, UrlRequired)
                /\ UNCHANGED elapsed
           ELSE /\ pc' = [pc EXCEPT ![r] = "delay"]
                /\ elapsed' = [elapsed EXCEPT ![r] = 0]
                /\ UNCHANGED responses
    /\ UNCHANGED << pureVars, pageVars, handler, nodeEnv, caller, body, created, inst, argUrl, fetchLog,
                    fetched, outcome, fields, localStorage, analyses, overallScore >>

\* the 1200 ms timer fires: the mock data is generated and returned
MockRespond(r) ==
    /\ caller = "route"
    /\ handler = "mock"
    /\ pc[r] = "delay"
    /\ elapsed' = [elapsed EXCEPT ![r] = MockDelayMs]
    /\ \E rands \in [1 .. 6 -> MockRandoms] :
         Respond(r, [ status |-> 200, body |-> MockData(rands) ])
    /\ UNCHANGED << pureVars, pageVars, handler, nodeEnv, caller, body, created, inst, argUrl, fetchLog,
                    fetched, outcome, fields, localStorage, analyses, overallScore >>

(***************************************************************************)
(* The landing page: what handleSubmit does with the response.             *)
(***************************************************************************)
\* Response.ok
ResponseOk(resp) == resp.status >= 200 /\ resp.status <= 299

\* JSON.stringify / JSON.parse of a response body
JSONstringify(data) == [ json |-> data ]
JSONparse(str) == str.json

\* localStorage.setItem(key, value)
setItem(store, key, value) ==
    [ k \in DOMAIN store \cup {key} |-> IF k = key THEN value ELSE store[k] ]

\* the body handleSubmit sends has a non-blank string `url`
FromLandingPage(b) ==
    /\ b.kind = "object"
    /\ b.url.t = "string"
    /\ DropTrailingSpace(DropWhileSpace(b.url.v)) # << >>

\* handleSubmit after `await fetch(...)`: an ok response is stored
HomeStore(r) ==
    /\ caller = "route"
    /\ pc[r] = "done"
    /\ FromLandingPage(body[r])
    /\ Len(responses[r]) > 0
    /\ ResponseOk(responses[r][1])
    /\ localStorage' = setItem(setItem(localStorage, "analysisResults",
                                       JSONstringify(responses[r][1].body)),
                               "analyzedUrl", body[r].url.v)
    /\ pc' = [pc EXCEPT ![r] = "stored"]
    /\ UNCHANGED << pureVars, pageVars, handler, nodeEnv, caller, body, responses, created, inst, argUrl,
                    elapsed, fetchLog, fetched, outcome, fields, analyses,
                    overallScore >>

(***************************************************************************)
(* Code that calls analyze itself, on an instance it chooses.              *)
(***************************************************************************)
CallAnalyze(r) ==
    /\ caller = "direct"
    /\ pc[r] = "idle"
    /\ \E i \in Instances, u \in {UrlA, UrlB} : StartAnalyze(r, i, u)
    /\ UNCHANGED << pureVars, pageVars, handler, nodeEnv, caller, body, responses, created, fetched,
                    outcome, localStorage, analyses, overallScore >>

(***************************************************************************)
(* calculateOverallScore on its own.                                       *)
(***************************************************************************)
ScoreSamples == { 0, 2, 55, 99, 100 }

ScoreRecord(c, s, p, d, y, a) ==
    [ contentAnalysis |-> [ score |-> c ], seoAnalysis |-> [ score |-> s ],
      performanceAnalysis |-> [ score |-> p ], designAnalysis |-> [ score |-> d ],
      psychologyAnalysis |-> [ score |-> y ], accessibilityAnalysis |-> [ score |-> a ] ]

ComputeOverall ==
    /\ caller = "score"
    /\ overallScore = -1
    /\ overallScore' \in calculateOverallScore(analyses)
    /\ UNCHANGED << pureVars, pageVars, handler, nodeEnv, caller, pc, body, responses, created, inst,
                    argUrl, elapsed, fetchLog, fetched, outcome, fields,
                    localStorage, analyses >>

(***************************************************************************)
(* detectSpellingIssues on its own.                                        *)
(***************************************************************************)
SpellFragments ==
    { <<"r", "e", "c", "i", "e", "v", "e">>,
      <<"O", "c", "c", "U", "r", "E", "D">>,
      <<"s", "e", "p", "e", "r", "a", "t", "e">>,
      <<"D", "E", "F", "i", "n", "A", "T", "E", "l", "y">>,
      <<"A", "l", "o", "t">>,
      <<"a", " ", "l", "o", "t">>,
      <<"r", "e", "c", "e", "i", "v", "e">>,
      <<" ">>,
      <<"x">>,
      <<"a", "l", "o", "t", " ", "d", "e", "f", "i", "n", "a", "t", "e", "l", "y", " ", "s", "e", "p", "e", "r", "a", "t", "e", " ", "o", "c", "c", "u", "r", "e", "d", " ", "r", "e", "c", "i", "e", "v", "e">> }

\* the texts made of at most n fragments
RECURSIVE TextsOf(_, _)
TextsOf(fragments, n) ==
    IF n = 0 THEN { << >> }
    ELSE LET shorter == TextsOf(fragments, n - 1)
         IN  shorter \cup { t \o f : t \in shorter, f \in fragments }

SpellTexts == TextsOf(SpellFragments, MaxFragments)

ApplySpelling ==
    /\ caller = "spelling"
    /\ ret = NoRet
    /\ ret' = [ kind |-> "spelling", value |-> detectSpellingIssues(arg) ]
    /\ UNCHANGED << routeVars, caller, localStorage, arg, pageVars >>

(***************************************************************************)
(* calculateReadability on its own.                                        *)
(***************************************************************************)
\* n words, one space between two words
RECURSIVE WordsText(_)
WordsText(n) ==
    IF n = 0 THEN << >>
    ELSE IF n = 1 THEN << "a" >>
    ELSE WordsText(n - 1) \o << " ", "a" >>

\* one sentence with or without its full stop, and two sentences
ReadTexts ==
    { WordsText(n) \o e : n \in 0 .. MaxWords,
                          e \in { << >>, << "." >>, << "!", "?" >>, << " " >> } }
    \cup { WordsText(n) \o << ".", " " >> \o WordsText(m) \o << "." >> :
             n \in 1 .. MaxWords, m \in { 1, MaxWords } }

ApplyReadability ==
    /\ caller = "readability"
    /\ ret = NoRet
    /\ ret' = [ kind |-> "readability", value |-> calculateReadability(arg) ]
    /\ UNCHANGED << routeVars, caller, localStorage, arg, pageVars >>

(***************************************************************************)
(* The six calculate...Score methods on their own, on the features the     *)
(* modules extract from a document.                                        *)
(***************************************************************************)
\* (count / total) * 100, or 100 when there is nothing to count
Percentage(count, total) ==
    IF total > 0 THEN [ num |-> 100 * count, den |-> total ]
    ELSE [ num |-> 100, den |-> 1 ]

ContentParams ==
    [ wordCount : { 0, 299, 300 }, readabilityScore : { 40, 60, 75, 90 },
      spellingIssues : { 0, 1, 5 }, hasClearValue : BOOLEAN ]

SEOParams ==
    [ title : { 0, 29, 30, 60, 61 }, description : { 0, 119, 120, 161 },
      properStructure : BOOLEAN, schemaMarkup : BOOLEAN, mobileOptimized : BOOLEAN ]

PerformanceParams ==
    [ scripts : { 0, 10, 11 }, hasMinifiedCSS : BOOLEAN, hasMinifiedJS : BOOLEAN,
      hasLazyLoading : BOOLEAN ]

DesignParams ==
    [ visualHierarchy : { 50, 75, 90 }, whitespace : { 50, 65, 80 },
      readableSize : BOOLEAN, fontVariety : { 0, 2, 3, 6, 7 } ]

\* ctaAboveFold is `ctas.length > 0`
PsychologyParams ==
    { [ trustSignals |-> t, ctaCount |-> c, ctaAboveFold |-> (c > 0),
        hasSocialProof |-> p ] :
        t \in { 0, 2, 3, 6 }, c \in 0 .. MaxCount, p \in BOOLEAN }

\* imagesWithAlt counts images; elementsWithAria counts any element
AccessibilityParams ==
    UNION { { [ ariaScore |-> Percentage(with, needing),
                altScore |-> Percentage(alt, images),
                hasSemanticHTML |-> sem, hasLangAttr |-> lang ] :
                with \in 0 .. MaxCount, alt \in 0 .. images,
                sem \in BOOLEAN, lang \in BOOLEAN } :
            needing \in 0 .. MaxCount, images \in 0 .. MaxCount }

ScoreInputs ==
    { [ fn |-> "content", params |-> q ] : q \in ContentParams }
    \cup { [ fn |-> "seo", params |-> q ] : q \in SEOParams }
    \cup { [ fn |-> "performance", params |-> q ] : q \in PerformanceParams }
    \cup { [ fn |-> "design", params |-> q ] : q \in DesignParams }
    \cup { [ fn |-> "psychology", params |-> q ] : q \in PsychologyParams }
    \cup { [ fn |-> "accessibility", params |-> q ] : q \in AccessibilityParams }

\* the method the input names, applied to its params
ScoreOf(input) ==
    CASE input.fn = "content" -> calculateContentScore(input.params)
      [] input.fn = "seo" -> calculateSEOScore(input.params)
      [] input.fn = "performance" -> calculatePerformanceScore(input.params)
      [] input.fn = "design" -> calculateDesignScore(input.params)
      [] input.fn = "psychology" -> calculatePsychologyScore(input.params)
      [] input.fn = "accessibility" -> calculateAccessibilityScore(input.params)

ApplyScore ==
    /\ caller = "scores"
    /\ ret = NoRet
    /\ ret' = [ kind |-> "score", fn |-> arg.fn, value |-> ScoreOf(arg) ]
    /\ UNCHANGED << routeVars, caller, localStorage, arg, pageVars >>

(***************************************************************************)
(* The landing page (Home) and the results page (Results) in the browser.  *)
(* caller = "page": the form is submitted through its controls;            *)
(* caller = "form": submit events reach the form whatever the state of     *)
(* the submit button.                                                      *)
(***************************************************************************)
\* String.prototype.trim
Trim(s) == DropTrailingSpace(DropWhileSpace(s))

\* what onChange can set the url state to
TypedUrls == { << >>, << " " >>, UrlA, UrlB }

\* `disabled={isLoading || !url.trim()}`
SubmitDisabled == isLoading \/ Trim(homeUrl) = << >>

\* a body on which `await response.json()` throws
BadJson == [ syntaxError |-> TRUE ]

OkBodies == { MockData([i \in 1 .. 6 |-> 0]), MockData([i \in 1 .. 6 |-> RandDen - 1]) }

\* the responses `await fetch('/api/analyze', ...)` can resolve with
PageResponses ==
    { [ status |-> 200, body |-> b ] : b \in OkBodies \cup { BadJson } }
    \cup { InvalidUrlFormat, MockCatch }

\* localStorage as the page finds it: empty, with one of the two keys, with
\* both, with an empty analyzedUrl, with the JSON text `null`
StoreOf(results, analyzed) ==
    setItem(setItem(<< >>, "analysisResults", JSONstringify(results)),
            "analyzedUrl", analyzed)

InitialStores ==
    { << >>,
      setItem(<< >>, "analysisResults", JSONstringify(MockData([i \in 1 .. 6 |-> 0]))),
      setItem(<< >>, "analyzedUrl", UrlA),
      StoreOf(MockData([i \in 1 .. 6 |-> 0]), UrlA),
      StoreOf(MockData([i \in 1 .. 6 |-> 0]), << >>),
      StoreOf(JsNull, UrlA) }

\* the truthiness of localStorage.getItem(key): null when the key is absent;
\* a JSON text is never the empty string, a stored URL can be
ItemTruthy(store, key) ==
    /\ key \in DOMAIN store
    /\ (key = "analyzedUrl" => store[key] # << >>)

\* Home is mounted: useState('') and useState(false)
MountHome ==
    /\ location' = "/"
    /\ homeUrl' = << >>
    /\ isLoading' = FALSE
    /\ homeId' = homeId + 1
    /\ reportData' = JsNull
    /\ shownUrl' = << >>
    /\ effectDue' = FALSE

\* router.push('/results'): Results is mounted (useState(null),
\* useState('')) unless it is already shown; Home is unmounted
PushResults ==
    /\ location' = "/results"
    /\ homeUrl' = << >>
    /\ isLoading' = FALSE
    /\ homeId' = homeId
    /\ IF location = "/results"
       THEN UNCHANGED << reportData, shownUrl, effectDue >>
       ELSE /\ reportData' = JsNull
            /\ shownUrl' = << >>
            /\ effectDue' = TRUE

\* setIsLoading(value) by run k of handleSubmit: it acts on the instance of
\* Home the run belongs to, if that instance is still mounted
SetIsLoading(k, value) ==
    IF location = "/" /\ submits[k].home = homeId THEN value ELSE isLoading

\* onChange of the input: setUrl(e.target.value)
EditUrl ==
    /\ caller \in {"page", "form"}
    /\ location = "/"
    /\ \E v \in TypedUrls \ { homeUrl } : homeUrl' = v
    /\ UNCHANGED << routeVars, caller, localStorage, pureVars, location, isLoading,
                    homeId, submits, reportData, shownUrl, effectDue >>

\* a plausible slip: handleSubmit does not call setIsLoading(true)
LoadingOnSubmit_Unset == isLoading

\* `setIsLoading(true)`
LoadingOnSubmit == TRUE

\* the form's submit event: handleSubmit up to `await fetch(...)`
Submit ==
    /\ caller \in {"page", "form"}
    /\ location = "/"
    /\ caller = "page" => ~SubmitDisabled
    /\ Len(submits) < MaxSubmits
    /\ IF Trim(homeUrl) = << >>
       THEN /\ submits' = Append(submits, [ url |-> homeUrl, home |-> homeId,
                                            state |-> "returned" ])
            /\ UNCHANGED isLoading
       ELSE /\ submits' = Append(submits, [ url |-> homeUrl, home |-> homeId,
                                            state |-> "pending" ])
            /\ isLoading' = LoadingOnSubmit
    /\ UNCHANGED << routeVars, caller, localStorage, pureVars, location, homeUrl,
                    homeId, reportData, shownUrl, effectDue >>

\* a plausible slip: the URL stored is the one the input holds now
UrlToStore_Current(k) == homeUrl

\* `url` in handleSubmit is the constant of the render the run started in
UrlToStore(k) == submits[k].url

\* run k: an ok response with a JSON body arrives; both keys are written,
\* router.push('/results'), finally setIsLoading(false).  The run's entry
\* keeps the body received and what the input held at that moment.
ResponseStored(k) ==
    /\ caller \in {"page", "form"}
    /\ k \in 1 .. Len(submits)
    /\ submits[k].state = "pending"
    /\ \E resp \in PageResponses :
         /\ ResponseOk(resp)
         /\ resp.body # BadJson
         /\ localStorage' = setItem(setItem(localStorage, "analysisResults",
                                            JSONstringify(resp.body)),
                                    "analyzedUrl", UrlToStore(k))
         /\ submits' = [submits EXCEPT ![k] = [ url |-> @.url, home |-> @.home,
                                                state |-> "stored",
                                                body |-> resp.body,
                                                typed |-> homeUrl ]]
    /\ PushResults
    /\ UNCHANGED << routeVars, caller, pureVars >>

\* a plausible slip: the response is stored whatever its status
StoreAfterNotOk_Always(store, k, resp) ==
    setItem(setItem(store, "analysisResults", JSONstringify(resp.body)),
            "analyzedUrl", submits[k].url)

\* the else branch of `if (response.ok)`: nothing is stored
StoreAfterNotOk(store, k, resp) == store

\* run k: a response that is not ok arrives; alert, finally
\* setIsLoading(false)
ResponseNotOk(k) ==
    /\ caller \in {"page", "form"}
    /\ k \in 1 .. Len(submits)
    /\ submits[k].state = "pending"
    /\ \E resp \in PageResponses :
         /\ ~ResponseOk(resp)
         /\ localStorage' = StoreAfterNotOk(localStorage, k, resp)
    /\ submits' = [submits EXCEPT ![k].state = "alerted"]
    /\ isLoading' = SetIsLoading(k, FALSE)
    /\ UNCHANGED << routeVars, caller, pureVars, location, homeUrl, homeId,
                    reportData, shownUrl, effectDue >>

\* a plausible slip: setIsLoading(false) sits in the try block, not in
\* finally
LoadingAfterThrow_Kept(k) == isLoading

\* `finally { setIsLoading(false) }` after the catch block
LoadingAfterThrow(k) == SetIsLoading(k, FALSE)

\* run k: fetch rejects, or response.json() throws on an ok response; catch:
\* console.error and alert, finally setIsLoading(false)
RequestThrows(k) ==
    /\ caller \in {"page", "form"}
    /\ k \in 1 .. Len(submits)
    /\ submits[k].state = "pending"
    /\ submits' = [submits EXCEPT ![k].state = "caught"]
    /\ isLoading' = LoadingAfterThrow(k)
    /\ UNCHANGED << routeVars, caller, localStorage, pureVars, location, homeUrl,
                    homeId, reportData, shownUrl, effectDue >>

\* a plausible slip: the report is shown as soon as analysisResults is there
ResultsPresent_OnlyResults(store) == ItemTruthy(store, "analysisResults")

\* `if (analysisResults && analyzedUrl)`
ResultsPresent(store) ==
    ItemTruthy(store, "analysisResults") /\ ItemTruthy(store, "analyzedUrl")

\* the effect of Results after it is mounted
ResultsEffect ==
    /\ caller \in {"page", "form"}
    /\ location = "/results"
    /\ effectDue
    /\ IF ResultsPresent(localStorage)
       THEN /\ reportData' = JSONparse(localStorage["analysisResults"])
            /\ shownUrl' = IF "analyzedUrl" \in DOMAIN localStorage
                           THEN localStorage["analyzedUrl"] ELSE << >>
            /\ effectDue' = FALSE
            /\ UNCHANGED << location, homeUrl, isLoading, homeId >>
       ELSE MountHome
    /\ UNCHANGED << routeVars, caller, localStorage, pureVars, submits >>

\* the report's button "Analyze Another Website": router.push('/')
AnalyzeAnother ==
    /\ caller \in {"page", "form"}
    /\ location = "/results"
    /\ ~effectDue
    /\ reportData # JsNull
    /\ MountHome
    /\ UNCHANGED << routeVars, caller, localStorage, pureVars, submits >>

(***************************************************************************)
(* The catch block of POST on its own.                                     *)
(***************************************************************************)
ErrorFragments ==
    { <<"E", "N", "O", "T", "F", "O", "U", "N", "D">>,
      <<"t", "i", "m", "e", "o", "u", "t">>,
      <<"T", "i", "m", "e", "o", "u", "t">>,
      <<"E", "T", "I", "M", "E", "D", "O", "U", "T">>,
      <<"E", "N", "O", "T">>,
      <<"F", "O", "U", "N", "D">>,
      <<"t", "i", "m", "e">>,
      <<"o", "u", "t">>,
      <<" ", "x", " ">> }

\* the messages of the errors that reach the catch block
ErrorMessages == TextsOf(ErrorFragments, MaxFragments)

NodeEnvs == { "development", "production", "test" }

\* analyze threw: its catch block has wrapped the cause (arg)
CatchWrapped ==
    /\ caller = "catch"
    /\ ret = NoRet
    /\ ret' = [ kind |-> "catch", wrapped |-> TRUE, errorMessage |-> WrapError(arg),
                response |-> RouteCatch(WrapError(arg), nodeEnv) ]
    /\ UNCHANGED << routeVars, caller, localStorage, arg, pageVars >>

\* POST itself threw the error (arg), as `await req.json()` does
CatchRaw ==
    /\ caller = "catch"
    /\ ret = NoRet
    /\ ret' = [ kind |-> "catch", wrapped |-> FALSE, errorMessage |-> arg,
                response |-> RouteCatch(arg, nodeEnv) ]
    /\ UNCHANGED << routeVars, caller, localStorage, arg, pageVars >>

(***************************************************************************)
(* The result object of analyze on its own: generateRecommendations and    *)
(* the two insight counts, on the module results they read.                *)
(***************************************************************************)
\* the spelling issues of a text that holds the five words
FiveIssues == detectSpellingIssues(<<"a", "l", "o", "t", " ", "d", "e", "f", "i", "n", "a", "t", "e", "l", "y", " ", "s", "e", "p", "e", "r", "a", "t", "e", " ", "o", "c", "c", "u", "r", "e", "d", " ", "r", "e", "c", "i", "e", "v", "e">>)

\* what analyzeAccessibility counts in a document
PageFeatures ==
    UNION { { [ ariaNeeding |-> needing, ariaWith |-> with, images |-> images,
                imagesAltAttr |-> alt, semantic |-> sem, lang |-> lang ] :
                with \in 0 .. MaxCount, alt \in 0 .. images,
                sem \in BOOLEAN, lang \in BOOLEAN } :
            needing \in 0 .. MaxCount, images \in 0 .. MaxCount }

PlainPage ==
    [ ariaNeeding |-> 0, ariaWith |-> 0, images |-> 0, imagesAltAttr |-> 0,
      semantic |-> FALSE, lang |-> FALSE ]

\* the features of a document that the recommendations and the
\* accessibility report depend on: the former vary on a plain page, the
\* latter on a page that draws no recommendation
ResultFeatures ==
    { [ title |-> t, description |-> d, spelling |-> n, lazyImages |-> z,
        psychology |-> y, design |-> g, page |-> PlainPage ] :
        t \in { 0, 1, 35 }, d \in { 0, 130 }, n \in { 0, 1, 5 }, z \in { 0, 1 },
        y \in { 50, 60, 70, 100 }, g \in { 60, 65, 70, 100 } }
    \cup { [ title |-> 35, description |-> 130, spelling |-> 0, lazyImages |-> 1,
             psychology |-> 100, design |-> 100, page |-> q ] : q \in PageFeatures }

\* the module results of a document with features f (the fields that
\* generateRecommendations reads, as the modules fill them)
ResultsOf(f) ==
    [ m \in Modules |->
        CASE m = "content" -> [ score |-> 70, spellingIssues |-> Take(FiveIssues, f.spelling) ]
          [] m = "seo" -> [ score |-> 50,
                            metaTags |-> [ title |-> [ present |-> f.title > 0 ],
                                           description |-> [ present |-> f.description > 0 ] ] ]
          [] m = "performance" -> [ score |-> 80,
                                    optimizations |-> [ lazyLoading |-> f.lazyImages > 0 ] ]
          [] m = "design" -> [ score |-> f.design ]
          [] m = "psychology" -> [ score |-> f.psychology ]
          [] m = "accessibility" -> AccessibilityOf(f.page) ]

\* analyze builds its result from the six module results
ApplyResult ==
    /\ caller = "result"
    /\ ret = NoRet
    /\ ret' = [ kind |-> "result", value |-> AnalysisResult(UrlA, ResultsOf(arg), 0) ]
    /\ UNCHANGED << routeVars, caller, localStorage, arg, pageVars >>

(***************************************************************************)
(* Specifications.                                                         *)
(***************************************************************************)
InitCalls ==
    /\ pc = [r \in Calls |-> "idle"]
    /\ body = [r \in Calls |-> NoBody]
    /\ responses = [r \in Calls |-> << >>]
    /\ created = [r \in Calls |-> 0]
    /\ inst = [r \in Calls |-> 0]
    /\ argUrl = [r \in Calls |-> << >>]
    /\ elapsed = [r \in Calls |-> 0]
    /\ fetchLog = [r \in Calls |-> << >>]
    /\ fetched = [r \in Calls |-> NoDoc]
    /\ outcome = [r \in Calls |-> NoOutcome]
    /\ fields = [i \in Instances |-> InitialFields]

\* the deployed application: requests to POST /api/analyze
Init ==
    /\ handler \in {"analyzer", "mock"}
    /\ nodeEnv \in {"development", "production"}
    /\ caller = "route"
    /\ InitCalls
    /\ localStorage = << >>
    /\ NotApplied
    /\ HomeMounted
    /\ analyses = ScoreRecord(0, 0, 0, 0, 0, 0)
    /\ overallScore = -1

Next ==
    \E r \in Calls :
        \/ Post(r)
        \/ HandleBody(r)
        \/ HandleBodyMock(r)
        \/ MockRespond(r)
        \/ Tick(r)
        \/ FetchResolve(r)
        \/ FetchReject(r)
        \/ FetchTimeout(r)
        \/ HomeStore(r)

Spec == Init /\ [][Next]_vars

\* the handler's steps are taken, time passes and the timers fire; nothing
\* makes the fetched server answer
Fairness ==
    \A r \in Calls :
        /\ WF_vars(HandleBody(r))
        /\ WF_vars(HandleBodyMock(r))
        /\ WF_vars(MockRespond(r))
        /\ WF_vars(Tick(r))
        /\ WF_vars(FetchTimeout(r))

FairSpec == Spec /\ Fairness

\* WebsiteAnalyzer used directly: overlapping analyze calls, on one instance
\* or on several
LibInit ==
    /\ handler = "analyzer"
    /\ nodeEnv = "production"
    /\ caller = "direct"
    /\ InitCalls
    /\ localStorage = << >>
    /\ NotApplied
    /\ HomeMounted
    /\ analyses = ScoreRecord(0, 0, 0, 0, 0, 0)
    /\ overallScore = -1

LibNext ==
    \E r \in Calls :
        \/ CallAnalyze(r)
        \/ Tick(r)
        \/ FetchResolve(r)
        \/ FetchReject(r)
        \/ FetchTimeout(r)

LibSpec == LibInit /\ [][LibNext]_vars

\* calculateOverallScore applied to six scores
ScoreInit ==
    /\ handler = "analyzer"
    /\ nodeEnv = "production"
    /\ caller = "score"
    /\ InitCalls
    /\ localStorage = << >>
    /\ NotApplied
    /\ HomeMounted
    /\ \E c, s, p, d, y, a \in ScoreSamples : analyses = ScoreRecord(c, s, p, d, y, a)
    /\ overallScore = -1

ScoreNext == ComputeOverall

ScoreSpec == ScoreInit /\ [][ScoreNext]_vars

\* the route handler and the analyzer at rest, for the specifications of a
\* function applied on its own and of the pages
RouteIdle ==
    /\ handler = "analyzer"
    /\ nodeEnv = "production"
    /\ InitCalls
    /\ analyses = ScoreRecord(0, 0, 0, 0, 0, 0)
    /\ overallScore = -1

\* detectSpellingIssues applied to a text
SpellInit ==
    /\ caller = "spelling"
    /\ RouteIdle
    /\ localStorage = << >>
    /\ HomeMounted
    /\ arg \in SpellTexts
    /\ ret = NoRet

SpellNext == ApplySpelling

SpellSpec == SpellInit /\ [][SpellNext]_vars

\* calculateReadability applied to a text
ReadInit ==
    /\ caller = "readability"
    /\ RouteIdle
    /\ localStorage = << >>
    /\ HomeMounted
    /\ arg \in ReadTexts
    /\ ret = NoRet

ReadNext == ApplyReadability

ReadSpec == ReadInit /\ [][ReadNext]_vars

\* a calculate...Score method applied to the features of a document
ModuleScoreInit ==
    /\ caller = "scores"
    /\ RouteIdle
    /\ localStorage = << >>
    /\ HomeMounted
    /\ arg \in ScoreInputs
    /\ ret = NoRet

ModuleScoreNext == ApplyScore

ModuleScoreSpec == ModuleScoreInit /\ [][ModuleScoreNext]_vars

\* the result of analyze built from module results
ResultInit ==
    /\ caller = "result"
    /\ RouteIdle
    /\ localStorage = << >>
    /\ HomeMounted
    /\ arg \in ResultFeatures
    /\ ret = NoRet

ResultNext == ApplyResult

ResultSpec == ResultInit /\ [][ResultNext]_vars

\* the catch block of POST applied to an error
CatchInit ==
    /\ caller = "catch"
    /\ handler = "analyzer"
    /\ nodeEnv \in NodeEnvs
    /\ InitCalls
    /\ analyses = ScoreRecord(0, 0, 0, 0, 0, 0)
    /\ overallScore = -1
    /\ localStorage = << >>
    /\ HomeMounted
    /\ arg \in ErrorMessages
    /\ ret = NoRet

CatchNext ==
    \/ CatchWrapped
    \/ CatchRaw

CatchSpec == CatchInit /\ [][CatchNext]_vars

\* the browser opens "/" or "/results"
PagesOpened ==
    /\ location \in { "/", "/results" }
    /\ homeUrl = << >>
    /\ isLoading = FALSE
    /\ homeId = 1
    /\ submits = << >>
    /\ reportData = JsNull
    /\ shownUrl = << >>
    /\ effectDue = (location = "/results")
    /\ localStorage \in InitialStores

\* the two pages, used through their controls
PageInit ==
    /\ caller = "page"
    /\ RouteIdle
    /\ NotApplied
    /\ PagesOpened

PageNext ==
    \/ EditUrl
    \/ Submit
    \/ \E k \in 1 .. MaxSubmits : ResponseStored(k)
    \/ \E k \in 1 .. MaxSubmits : ResponseNotOk(k)
    \/ \E k \in 1 .. MaxSubmits : RequestThrows(k)
    \/ ResultsEffect
    \/ AnalyzeAnother

PageSpec == PageInit /\ [][PageNext]_vars

\* the landing page opened with an empty localStorage, when submit events
\* are dispatched at the form by a script
FormInit ==
    /\ caller = "form"
    /\ RouteIdle
    /\ NotApplied
    /\ HomeMounted
    /\ localStorage = << >>

FormSpec == FormInit /\ [][PageNext]_vars

\* every request sent by fetch is settled: a response arrives or it rejects
PageFairness ==
    \A k \in 1 .. MaxSubmits :
        WF_vars(ResponseStored(k) \/ ResponseNotOk(k) \/ RequestThrows(k))

FormFairSpec == FormSpec /\ PageFairness


(***************************************************************************)
(* Properties.                                                             *)
(***************************************************************************)
Finished(r) == pc[r] \in {"done", "stored"}

\* C1: a request whose body has a missing, empty or otherwise falsy `url`
\* is answered with status 400 and error 'URL is required', by either
\* version of the route, and neither constructs a WebsiteAnalyzer nor issues
\* an outbound fetch.
C1_FalsyUrlRejected ==
    \A r \in Calls :
        (body[r].kind = "object" /\ ~Truthy(body[r].url))
        => /\ created[r] = 0
           /\ inst[r] = 0
           /\ fetchLog[r] = << >>
           /\ pc[r] \notin {"fetching", "delay"}
           /\ Finished(r) =>
                responses[r] = << [ status |-> 400,
                                    body |-> [ error |-> "URL is required" ] ] >>

C1_Witness ==
    \E r \in Calls :
        /\ Finished(r)
        /\ body[r] = [ kind |-> "object", url |-> JsString(<< >>) ]
        /\ Len(responses[r]) = 1
        /\ responses[r][1].status = 400

\* C2: the analyzer version of the route answers a non-empty `url` that the
\* URL constructor rejects with status 400 and error 'Invalid URL format.
\* Please enter a valid website URL.' and issues no outbound fetch; every
\* URL that reaches analyze has passed URL parsing.
C2_InvalidUrlRejected ==
    \A r \in Calls :
        /\ (handler = "analyzer" /\ body[r].kind = "object"
            /\ Truthy(body[r].url) /\ ~URLParses(JsToString(body[r].url)))
           => /\ fetchLog[r] = << >>
              /\ inst[r] = 0
              /\ pc[r] # "fetching"
              /\ Finished(r) =>
                   responses[r] =
                     << [ status |-> 400,
                          body |-> [ error |->
                            "Invalid URL format. Please enter a valid website URL." ] ] >>
        /\ inst[r] # 0 => URLParses(argUrl[r])
        /\ \A i \in 1 .. Len(fetchLog[r]) : URLParses(fetchLog[r][i])

C2_Witness ==
    \E r \in Calls :
        /\ handler = "analyzer"
        /\ Finished(r)
        /\ body[r].kind = "object"
        /\ Truthy(body[r].url)
        /\ ~URLParses(JsToString(body[r].url))
        /\ Len(responses[r]) = 1
        /\ responses[r][1].status = 400

\* the module results a 200 response must carry: those of the six modules
\* on the document fetched for the request
CompleteAnalysis(r, analysis) ==
    LET self == [ html |-> fetched[r], dollar |-> Load(fetched[r]), url |-> argUrl[r] ]
    IN  /\ fetched[r] # NoDoc
        /\ analysis.contentAnalysis = analyzeContent(self)
        /\ analysis.seoAnalysis = analyzeSEO(self)
        /\ analysis.performanceAnalysis = analyzePerformance(self)
        /\ analysis.designAnalysis = analyzeDesign(self)
        /\ analysis.psychologyAnalysis = analyzePsychology(self)
        /\ analysis.accessibilityAnalysis = analyzeAccessibility(self)

\* C3: in the analyzer version of the route every exception (the body is
\* not JSON or is null, the fetch fails or times out, a module throws) ends
\* in exactly one response with status 500 and error 'Analysis failed'; a
\* 200 response is sent only when analyze returned, and it carries the
\* results of all six modules.
C3_ExceptionsBecome500 ==
    \A r \in Calls :
        (handler = "analyzer" /\ Finished(r))
        => /\ Len(responses[r]) = 1
           /\ (body[r].kind \in {"invalid", "null"} \/ outcome[r].kind = "threw")
              => /\ responses[r][1].status = 500
                 /\ responses[r][1].body.error = "Analysis failed"
           /\ responses[r][1].status = 200
              => /\ outcome[r].kind = "ok"
                 /\ responses[r][1].body.analysis = outcome[r].result
                 /\ CompleteAnalysis(r, responses[r][1].body.analysis)

C3_Witness ==
    \E r \in Calls :
        /\ handler = "analyzer"
        /\ Finished(r)
        /\ outcome[r].kind = "threw"
        /\ outcome[r].message = WrapError(ModuleFault)
        /\ fetched[r] # NoDoc
        /\ responses[r][1].status = 500

\* C4: every request POST received eventually gets a response, and never
\* more than one; its status is 200, 400 or 500; the analyzer version sends
\* 200 only if the fetch succeeded and all six modules completed.
C4_EventuallyOneResponse ==
    /\ [](\A r \in Calls :
            /\ Len(responses[r]) <= 1
            /\ Finished(r) => /\ Len(responses[r]) = 1
                              /\ responses[r][1].status \in {200, 400, 500}
            /\ (handler = "analyzer" /\ Len(responses[r]) = 1
                  /\ responses[r][1].status = 200)
               => (fetched[r] # NoDoc /\ outcome[r].kind = "ok"
                   /\ CompleteAnalysis(r, responses[r][1].body.analysis)))
    /\ \A r \in Calls : (pc[r] = "json") ~> (Finished(r) /\ Len(responses[r]) = 1)

C4_Witness ==
    \E r \in Calls :
        /\ Finished(r)
        /\ elapsed[r] >= FetchTimeoutMs
        /\ outcome[r].kind = "threw"
        /\ Len(responses[r]) = 1
        /\ responses[r][1].status = 500

\* C5: a call of analyze issues at most one outbound fetch; when the fetch
\* fails or times out the call has failed, with no second fetch.
C5_AtMostOneFetch ==
    \A r \in Calls :
        /\ Len(fetchLog[r]) <= 1
        /\ pc[r] = "fetching" => Len(fetchLog[r]) = 1
        /\ (Len(fetchLog[r]) = 1 /\ fetched[r] = NoDoc /\ pc[r] # "fetching")
           => (Finished(r) /\ outcome[r].kind = "threw")

C5_Witness ==
    \E r \in Calls :
        /\ Finished(r)
        /\ outcome[r].kind = "threw"
        /\ fetched[r] = NoDoc
        /\ Len(fetchLog[r]) = 1

\* what analyze(u) returns when it alone uses a new instance and its fetch
\* returns doc
AloneResults(u, doc) ==
    { x.result :
        x \in { y \in AnalyzeAfterFetch([ html |-> doc, dollar |-> Load(doc), url |-> u ],
                                        u, {}) : y.kind = "ok" } }

\* C6: the result of analyze(u) is what the document fetched for u gives,
\* whatever other analyze calls ran before, after or during it, on the same
\* instance or on another.
C6_Stateless ==
    \A r \in Calls :
        outcome[r].kind = "ok" => outcome[r].result \in AloneResults(argUrl[r], fetched[r])

\* the orders the six modules can run in
ModuleOrders ==
    { q \in [1 .. Cardinality(Modules) -> Modules] :
        \A i, j \in 1 .. Cardinality(Modules) : i # j => q[i] # q[j] }

\* C7: no module changes html, $ or url of the analyzer, and in whatever
\* order the six modules run each returns what it returns when run alone.
C7_ModulesReadOnly ==
    \A r \in Calls :
        fetched[r] # NoDoc
        => LET self == fields[inst[r]]
           IN  /\ self.html = fetched[r]
               /\ self.dollar = Load(fetched[r])
               /\ \A order \in ModuleOrders :
                    LET run == RunModules(order, self, {})
                    IN  /\ run.self = self
                        /\ \A m \in Modules : run.results[m] = ModuleResult(m, self)

C7_Witness ==
    \E r \in Calls :
        /\ Finished(r)
        /\ fetched[r] # NoDoc
        /\ outcome[r].kind = "ok"

SixScores ==
    << analyses.contentAnalysis.score, analyses.seoAnalysis.score,
       analyses.performanceAnalysis.score, analyses.designAnalysis.score,
       analyses.psychologyAnalysis.score, analyses.accessibilityAnalysis.score >>

\* C8: overallScore is 25% content + 20% SEO + 15% performance + 15% design
\* + 15% psychology + 10% accessibility rounded to a nearest integer, so it
\* lies between the smallest and the largest of the six scores and in 0..100.
C8_OverallScoreWeighted ==
    overallScore # -1
    => LET sc == SixScores
           sum == 25 * sc[1] + 20 * sc[2] + 15 * sc[3] + 15 * sc[4] + 15 * sc[5]
                  + 10 * sc[6]
       IN  /\ 100 * overallScore - sum <= 50
           /\ sum - 100 * overallScore <= 50
           /\ \E i \in 1 .. 6 : sc[i] <= overallScore
           /\ \E i \in 1 .. 6 : overallScore <= sc[i]
           /\ overallScore \in 0 .. 100

C8_Witness ==
    /\ overallScore # -1
    /\ \E i \in 1 .. 6 : SixScores[i] < overallScore
    /\ \E i \in 1 .. 6 : overallScore < SixScores[i]
    /\ WeightedSum(analyses) % 100 = 50

\* the shape the README documents and the results page reads
HasReportShape(data) ==
    /\ {"total_score", "categories", "issues", "recommendations"} \subseteq DOMAIN data
    /\ data.total_score \in Int
    /\ DOMAIN data.categories = CategoryKeys
    /\ \A k \in CategoryKeys : data.categories[k] \in Int

\* C9: the response the landing page stored in localStorage has a numeric
\* total_score, categories with the keys clarity, ux, mobile, copy and
\* speed, an issues list and a recommendations list.
C9_StoredResponseHasReportShape ==
    "analysisResults" \in DOMAIN localStorage
    => HasReportShape(JSONparse(localStorage["analysisResults"]))

\* C10: in a mock response total_score is an integer in 60..100 and each of
\* the five category scores an integer in 12..20.
C10_MockScoreRanges ==
    \A r \in Calls :
        (handler = "mock" /\ Len(responses[r]) > 0 /\ responses[r][1].status = 200)
        => LET data == responses[r][1].body
           IN  /\ data.total_score \in 60 .. 100
               /\ DOMAIN data.categories = CategoryKeys
               /\ \A k \in CategoryKeys : data.categories[k] \in 12 .. 20

C10_Witness ==
    \E r \in Calls :
        /\ handler = "mock"
        /\ Len(responses[r]) > 0
        /\ responses[r][1].status = 200
        /\ responses[r][1].body.total_score = 99
        /\ responses[r][1].body.categories.speed = 19
        /\ responses[r][1].body.categories.clarity = 12

\* C11: in an analysis response (a 200 response that carries total_score and
\* categories, as the mock version of POST returns), total_score is the sum
\* of the five category scores.  The code draws the six numbers
\* independently, so the sum does not hold.
C11_TotalIsSumOfCategories ==
    \A r \in Calls :
        \A k \in 1 .. Len(responses[r]) :
            LET resp == responses[r][k]
            IN  (resp.status = 200 /\ "total_score" \in DOMAIN resp.body)
                    => resp.body.total_score
                         = resp.body.categories.clarity + resp.body.categories.ux
                           + resp.body.categories.mobile + resp.body.categories.copy
                           + resp.body.categories.speed

\* 0-based index of the first occurrence of p in s, -1 when there is none
FirstAt(s, p) ==
    LET at == { k \in 0 .. (Len(s) - Len(p)) :
                  \A j \in 1 .. Len(p) : s[k + j] = p[j] }
    IN  IF at = {} THEN -1 ELSE CHOOSE k \in at : \A m \in at : k <= m

DenyList == << <<"r", "e", "c", "i", "e", "v", "e">>, <<"o", "c", "c", "u", "r", "e", "d">>, <<"s", "e", "p", "e", "r", "a", "t", "e">>, <<"d", "e", "f", "i", "n", "a", "t", "e", "l", "y">>, <<"a", "l", "o", "t">> >>

\* C12: detectSpellingIssues uses the fixed list of five words; for every
\* text a word of the list is reported exactly once iff the lower-cased text
\* contains it, the reports come in the order of the list, `position` is the
\* index of the word's first occurrence in the lower-cased text, the
\* suggestion differs from the word, and at most five issues are reported.
C12_SpellingDenylist ==
    ret.kind = "spelling" =>
        LET issues == ret.value
            lower == toLowerCase(arg)
            rank(w) == CHOOSE i \in 1 .. 5 : DenyList[i] = w
        IN  /\ commonMisspellings = DenyList
            /\ Len(issues) <= 5
            /\ \A k \in 1 .. Len(issues) :
                  /\ \E i \in 1 .. 5 : DenyList[i] = issues[k].word
                  /\ issues[k].position = FirstAt(lower, issues[k].word)
                  /\ issues[k].position >= 0
                  /\ issues[k].suggestion # issues[k].word
            /\ \A i \in 1 .. 5 :
                  Cardinality({ k \in 1 .. Len(issues) : issues[k].word = DenyList[i] })
                    = IF FirstAt(lower, DenyList[i]) >= 0 THEN 1 ELSE 0
            /\ \A k, m \in 1 .. Len(issues) :
                  k < m => rank(issues[k].word) < rank(issues[m].word)

\* a text in mixed case with the five words out of order, one of them twice:
\* five issues are reported, 'alot' at its first occurrence
C12_Witness ==
    /\ ret.kind = "spelling"
    /\ Len(ret.value) = 5
    /\ arg # toLowerCase(arg)
    /\ ret.value[5].word = <<"a", "l", "o", "t">>
    /\ ret.value[5].position = 0
    /\ ret.value[1].position > ret.value[5].position

\* the words of a text: its maximal runs of characters other than whitespace
WordsIn(text) ==
    Cardinality({ i \in 1 .. Len(text) :
                    /\ text[i] \notin Whitespace
                    /\ (i = 1 \/ text[i - 1] \in Whitespace) })

\* the sentences of a text: the stretches between sentence ends that hold a
\* word (counted at the first character of their first word)
SentencesIn(text) ==
    LET inWord(i) == text[i] \notin (Whitespace \cup SentenceEnd)
    IN  Cardinality({ i \in 1 .. Len(text) :
                        /\ inWord(i)
                        /\ \A j \in 1 .. (i - 1) :
                              inWord(j) => \E k \in (j + 1) .. (i - 1) :
                                              text[k] \in SentenceEnd })

\* the score the tiers give to `words` words in `sentences` sentences
ScoreOfAverage(words, sentences) ==
    LET m == IF sentences = 0 THEN 1 ELSE sentences
    IN  CASE words <= 15 * m -> 90
          [] words > 15 * m /\ words <= 20 * m -> 75
          [] words > 20 * m /\ words <= 25 * m -> 60
          [] OTHER -> 40

\* C13: the readability score of a text is the tier of its average number
\* of words per sentence: 90 up to 15, 75 up to 20, 60 up to 25, 40 beyond
\* (so it is one of the four values and defined for the empty text).
C13_ReadabilityByAverage ==
    ret.kind = "readability" =>
        /\ ret.value \in { 90, 75, 60, 40 }
        /\ ret.value = ScoreOfAverage(WordsIn(arg), SentencesIn(arg))

\* C14: every module score is within 0..100: content within 70..100, SEO
\* within 50..100, performance within 70..100, design within 60..100,
\* psychology within 50..100, accessibility within 0..100.
C14_ModuleScoreRanges ==
    ret.kind = "score" =>
        /\ ret.value \in 0 .. 100
        /\ ret.fn = "content" => ret.value \in 70 .. 100
        /\ ret.fn = "seo" => ret.value \in 50 .. 100
        /\ ret.fn = "performance" => ret.value \in 70 .. 100
        /\ ret.fn = "design" => ret.value \in 60 .. 100
        /\ ret.fn = "psychology" => ret.value \in 50 .. 100
        /\ ret.fn = "accessibility" => ret.value \in 0 .. 100

\* more elements carry an aria label than need one, every image has an alt
\* attribute and both bonuses apply: the raw score exceeds 100, the score
\* returned is 100
C14_Witness ==
    /\ ret.kind = "score"
    /\ ret.fn = "accessibility"
    /\ arg.params.ariaScore.num > 100 * arg.params.ariaScore.den
    /\ arg.params.altScore.num = 100 * arg.params.altScore.den
    /\ arg.params.hasSemanticHTML /\ arg.params.hasLangAttr
    /\ ret.value = 100

\* the value of a key of localStorage differs after the step
KeyWritten(key) ==
    /\ key \in DOMAIN localStorage'
    /\ (key \in DOMAIN localStorage => localStorage'[key] # localStorage[key])

\* run k of handleSubmit goes from `from` to `to` in the step
RunMoves(k, from, to) ==
    /\ k \in 1 .. Len(submits)
    /\ submits[k].state = from
    /\ submits'[k].state = to

C16_ReportNeedsBothKeys ==
    /\ [](reportData # JsNull
            => /\ location = "/results"
               /\ "analysisResults" \in DOMAIN localStorage
               /\ "analyzedUrl" \in DOMAIN localStorage)
    /\ [][ ( /\ location = "/results"
             /\ effectDue /\ ~effectDue'
             /\ ~( /\ "analysisResults" \in DOMAIN localStorage
                   /\ "analyzedUrl" \in DOMAIN localStorage ) )
           => (location' = "/" /\ reportData = JsNull /\ reportData' = JsNull) ]_vars

\* /results was opened with analysisResults stored but no analyzedUrl: the
\* effect has redirected to the landing page, no report was shown
C16_Witness ==
    /\ location = "/"
    /\ homeId = 2
    /\ submits = << >>
    /\ "analysisResults" \in DOMAIN localStorage
    /\ "analyzedUrl" \notin DOMAIN localStorage
    /\ reportData = JsNull

\* C17: a submit with a blank or whitespace-only URL sends no request and
\* does not touch isLoading; any other submit sends a request and sets
\* isLoading; once true, isLoading eventually is false again, whatever the
\* outcome of the request.
C17_LoadingRaisedAndCleared ==
    /\ [][ Len(submits') = Len(submits) + 1
             => IF Trim(homeUrl) = << >>
                THEN /\ submits'[Len(submits')].state = "returned"
                     /\ isLoading' = isLoading
                     /\ (\A k \in 1 .. Len(submits) : submits[k].state # "pending")
                           => ~isLoading'
                ELSE /\ submits'[Len(submits')].state = "pending"
                     /\ isLoading' ]_vars
    /\ (isLoading ~> ~isLoading)

\* a whitespace-only submit was ignored; a later request threw and isLoading
\* is false again
C17_Witness ==
    /\ Len(submits) = 2
    /\ submits[1].state = "returned"
    /\ submits[1].url = << " " >>
    /\ submits[2].state = "caught"
    /\ location = "/"
    /\ ~isLoading

\* the requests sent from the page that are not settled yet
InFlight == { k \in 1 .. Len(submits) : submits[k].state = "pending" }

C19_StoredUrlIsSentUrl ==
    (\E k \in 1 .. Len(submits) : submits[k].state = "stored")
        => \E k \in 1 .. Len(submits) :
              /\ submits[k].state = "stored"
              /\ localStorage["analysisResults"] = JSONstringify(submits[k].body)
              /\ localStorage["analyzedUrl"] = submits[k].url

\* the input was edited while the request was in flight: the URL stored is
\* the one sent, not the one typed since
C19_Witness ==
    \E k \in 1 .. Len(submits) :
        /\ submits[k].state = "stored"
        /\ submits[k].typed # submits[k].url
        /\ Trim(submits[k].typed) # << >>
        /\ localStorage["analyzedUrl"] = submits[k].url
        /\ localStorage["analysisResults"] = JSONstringify(submits[k].body)

\* the user message the fixed priority gives for an error message
MessageByPriority(msg) ==
    IF FirstAt(msg, <<"E", "N", "O", "T", "F", "O", "U", "N", "D">>) >= 0
    THEN "Could not reach the website. Please check the URL and try again."
    ELSE IF FirstAt(msg, <<"t", "i", "m", "e", "o", "u", "t">>) >= 0
    THEN "Website took too long to respond. Please try again."
    ELSE "Unable to analyze the website. Please try a different URL."

\* C20: the 500 response's message is chosen from the error message with
\* the priority ENOTFOUND, then timeout, then the generic message; `details`
\* is the raw error message in development and absent otherwise; the
\* analyzer's wrapping is 'Analysis failed: ' followed by the cause's
\* message, and the message chosen is the one the cause's message gives.
C20_ErrorClassification ==
    ret.kind = "catch" =>
        /\ ret.response.status = 500
        /\ ret.response.body.message = MessageByPriority(ret.errorMessage)
        /\ IF nodeEnv = "development"
           THEN /\ "details" \in DOMAIN ret.response.body
                /\ ret.response.body.details = ret.errorMessage
           ELSE "details" \notin DOMAIN ret.response.body
        /\ ret.wrapped =>
              /\ ret.errorMessage = <<"A", "n", "a", "l", "y", "s", "i", "s", " ", "f", "a", "i", "l", "e", "d", ":", " ">> \o arg
              /\ ret.response.body.message = MessageByPriority(arg)

\* a wrapped cause that holds 'timeout' before 'ENOTFOUND', in production:
\* the ENOTFOUND message is chosen, no details are sent
C20_Witness ==
    /\ ret.kind = "catch"
    /\ ret.wrapped
    /\ nodeEnv = "production"
    /\ FirstAt(arg, <<"t", "i", "m", "e", "o", "u", "t">>) >= 0
    /\ FirstAt(arg, <<"E", "N", "O", "T", "F", "O", "U", "N", "D">>) > FirstAt(arg, <<"t", "i", "m", "e", "o", "u", "t">>)
    /\ ret.response.body.message
         = "Could not reach the website. Please check the URL and try again."
    /\ "details" \notin DOMAIN ret.response.body

\* the entries of q that carry the title
Titled(q, title) == { i \in 1 .. Len(q) : q[i].title = title }

\* C21: generateRecommendations emits 'Missing Page Title' (critical) iff
\* the title is absent, 'Missing Meta Description' (high) iff the
\* description is absent, 'Fix Spelling Errors' iff a spelling issue was
\* reported, 'Implement Lazy Loading' iff no image is lazy, 'Enhance Trust
\* Signals' iff the psychology score is below 70, 'Improve Visual Hierarchy'
\* iff the design score is below 70; critical issues are never premium,
\* strategic improvements always are.
C21_RecommendationRules ==
    ret.kind = "result" =>
        LET r == ret.value
            One(q, title, cond) == Cardinality(Titled(q, title)) = IF cond THEN 1 ELSE 0
        IN  /\ One(r.criticalIssues, "Missing Page Title", arg.title = 0)
            /\ \A i \in Titled(r.criticalIssues, "Missing Page Title") :
                  r.criticalIssues[i].severity = "critical"
            /\ One(r.criticalIssues, "Missing Meta Description", arg.description = 0)
            /\ \A i \in Titled(r.criticalIssues, "Missing Meta Description") :
                  r.criticalIssues[i].severity = "high"
            /\ One(r.quickWins, "Fix Spelling Errors", arg.spelling >= 1)
            /\ One(r.quickWins, "Implement Lazy Loading", arg.lazyImages = 0)
            /\ One(r.strategicImprovements, "Enhance Trust Signals", arg.psychology < 70)
            /\ One(r.strategicImprovements, "Improve Visual Hierarchy", arg.design < 70)
            /\ \A i \in 1 .. Len(r.criticalIssues) : ~r.criticalIssues[i].premium
            /\ \A i \in 1 .. Len(r.strategicImprovements) :
                  r.strategicImprovements[i].premium

\* a page without a description, with spelling issues and lazy images, its
\* psychology score exactly 70 and its design score below 70: one critical
\* issue, one quick win, one strategic improvement
C21_Witness ==
    /\ ret.kind = "result"
    /\ arg.title > 0 /\ arg.description = 0
    /\ arg.spelling = 5 /\ arg.lazyImages > 0
    /\ arg.psychology = 70 /\ arg.design = 65
    /\ Len(ret.value.criticalIssues) = 1
    /\ ret.value.criticalIssues[1].severity = "high"
    /\ Len(ret.value.quickWins) = 1
    /\ Len(ret.value.strategicImprovements) = 1
    /\ ret.value.strategicImprovements[1].title = "Improve Visual Hierarchy"

\* C24: in every analysis result freeInsightsCount +
\* premiumInsightsAvailable is the number of entries of criticalIssues,
\* quickWins and strategicImprovements together, and neither count is
\* negative.
C24_InsightCountsAddUp ==
    ret.kind = "result" =>
        /\ ret.value.freeInsightsCount >= 0
        /\ ret.value.premiumInsightsAvailable >= 0
        /\ ret.value.freeInsightsCount + ret.value.premiumInsightsAvailable
             = Len(ret.value.criticalIssues) + Len(ret.value.quickWins)
               + Len(ret.value.strategicImprovements)

\* a page that draws all six recommendations: four free, two premium
C24_Witness ==
    /\ ret.kind = "result"
    /\ Len(ret.value.criticalIssues) = 2
    /\ Len(ret.value.quickWins) = 2
    /\ Len(ret.value.strategicImprovements) = 2
    /\ ret.value.freeInsightsCount = 4
    /\ ret.value.premiumInsightsAvailable = 2

\* C22: wcagCompliance is 'AA' iff the accessibility score is at least 80,
\* 'A' iff it is within 60..79 and 'Needs Improvement' iff it is below 60;
\* screenReaderFriendly is true iff the page has a semantic element and its
\* ARIA score (the share of the elements needing a label that elements with
\* a label make up, 100 when none needs one) exceeds 50.
C22_AccessibilityLabels ==
    ret.kind = "result" =>
        LET acc == ret.value.accessibilityAnalysis
            q == arg.page
        IN  /\ acc.wcagCompliance \in { "AA", "A", "Needs Improvement" }
            /\ acc.wcagCompliance = "AA" <=> acc.score >= 80
            /\ acc.wcagCompliance = "A" <=> (acc.score >= 60 /\ acc.score < 80)
            /\ acc.wcagCompliance = "Needs Improvement" <=> acc.score < 60
            /\ acc.screenReaderFriendly
                 <=> (q.semantic /\ (q.ariaNeeding = 0 \/ 2 * q.ariaWith > q.ariaNeeding))

\* half of the elements that need a label have one, every image has an alt
\* attribute, the page has a lang attribute and a semantic element: the
\* score is 90 and the label AA, yet the ARIA score is exactly 50 and the
\* page is not screen-reader friendly
C22_Witness ==
    /\ ret.kind = "result"
    /\ arg.page.ariaNeeding = 2 /\ arg.page.ariaWith = 1
    /\ arg.page.images > 0 /\ arg.page.imagesAltAttr = arg.page.images
    /\ arg.page.semantic /\ arg.page.lang
    /\ ret.value.accessibilityAnalysis.score = 90
    /\ ret.value.accessibilityAnalysis.wcagCompliance = "AA"
    /\ ~ret.value.accessibilityAnalysis.screenReaderFriendly

\* C23: in the SEO result of every finished analysis the score holds the
\* title bonus of 15 exactly when metaTags.title.optimized is true and the
\* description bonus of 15 exactly when metaTags.description.optimized is
\* true (over the base of 50 and the bonuses for the heading structure,
\* the schema markup and the viewport, capped at 100).
C23_BonusesMatchFlags ==
    \A r \in Calls :
        outcome[r].kind = "ok" =>
            LET seo == outcome[r].result.seoAnalysis
            IN  seo.score
                  = Min(100, 50 + (IF seo.metaTags.title.optimized THEN 15 ELSE 0)
                                + (IF seo.metaTags.description.optimized THEN 15 ELSE 0)
                                + (IF seo.headings.properStructure THEN 10 ELSE 0)
                                + (IF seo.schemaMarkup THEN 5 ELSE 0)
                                + (IF seo.mobileOptimized THEN 5 ELSE 0))

====
